---------------------------- MODULE Spec2Model ----------------------------
(***************************************************************************)
(* Model of capraflow/google-apps-script-library.                          *)
(*                                                                         *)
(*  Part I  : the runtime library (app/code.ts, app/type-check.ts):        *)
(*            toDate, toDateStrict, isDate over JavaScript values.         *)
(*  Part II : the build scripts (scripts/build-*.js and their variants):   *)
(*            one invocation = a sequence of awaited filesystem steps.     *)
(***************************************************************************)
EXTENDS Integers, Sequences, FiniteSets, TLC

VARIABLES
    \* ---- Part I: one call of a library function ----
    argValue,      \* the `value` argument
    argDefault,    \* the `defaultValue` argument (Undefined when not supplied)
    callee,        \* "none" | "toDate" | "toDateStrict" | "isDate" |
                   \* "js.toDate" | "js.toDateStrict"
    outcome,       \* how the call ended: [kind, val, err]
    \* ---- Part II: build invocations ----
    variant,       \* the build script being run ("none" between invocations)
    pc,            \* index of the next step of the running invocation
    status,        \* "idle" | "running" | "rejected" | "resolved" | "exited"
    exitCode,      \* -1 while the process lives, else the process exit code
    stderr,        \* TRUE when an error was printed on the error stream
    stdout,        \* TRUE when the final success message was printed
    fs,            \* the filesystem: path -> content token ("" = absent)
    env,           \* the environment of the current invocation
    failedAt,      \* index of the step at which the invocation was rejected
    ranAfter,      \* TRUE when a step ran after a step of this invocation failed
    written,       \* paths written by the current invocation
    prev,          \* how the previous invocation ended and what it left
    inflight,      \* statements whose filesystem call has not settled yet
    \* ---- Part III: extraction and rendering ----
    project,       \* the source files: name and declarations of each
    renderer,      \* "none", or the operation that produced the output
    output,        \* what the operation returned
    runs,          \* how many times the operation has run on the project
    userFiles      \* the import declarations of the files the bundler builds

dateVars  == <<argValue, argDefault, callee, outcome>>
buildVars == <<variant, pc, status, exitCode, stderr, stdout, fs, env,
               failedAt, ranAfter, written, prev, inflight>>
renderVars == <<project, renderer, output, runs, userFiles>>
vars      == <<argValue, argDefault, callee, outcome,
               variant, pc, status, exitCode, stderr, stdout, fs, env,
               failedAt, ranAfter, written, prev, inflight,
               project, renderer, output, runs, userFiles>>

(***************************************************************************)
(*                    PART I  -  JavaScript values                         *)
(***************************************************************************)

\* A JavaScript Number is modelled exactly as hi * Base + lo + f/2 with
\* 0 <= lo < Base and f \in {0,1}, or as one of NaN, +Infinity, -Infinity.
Base == 1000000000

\* Dates range over +-8.64e15 ms around the epoch: 8640000 * Base.
MaxTimeHi == 8640000

\* How many units around each sample point the numeric inputs cover.
NumSpan == 1

Fin(h, l, half) == [c |-> "fin", hi |-> h, lo |-> l, f |-> half]
NaN    == [c |-> "nan",  hi |-> 0, lo |-> 0, f |-> 0]
PosInf == [c |-> "inf",  hi |-> 0, lo |-> 0, f |-> 0]
NegInf == [c |-> "ninf", hi |-> 0, lo |-> 0, f |-> 0]
Zero   == Fin(0, 0, 0)

\* Number.isNaN
NumberIsNaN(n) == n.c = "nan"

\* abs(n) > 8.64e15 for a finite n
OutOfTimeRange(n) ==
    \/ n.hi > MaxTimeHi
    \/ n.hi = MaxTimeHi /\ (n.lo > 0 \/ n.f > 0)
    \/ n.hi < -MaxTimeHi

\* ToIntegerOrInfinity of a finite n: truncation toward zero.
Truncate(n) ==
    IF n.f = 0 THEN n
    ELSE IF n.hi >= 0 THEN Fin(n.hi, n.lo, 0)
    ELSE IF n.lo + 1 = Base THEN Fin(n.hi + 1, 0, 0)
    ELSE Fin(n.hi, n.lo + 1, 0)

\* TimeClip: the time value a Date gets from a Number.
TimeClip(n) ==
    IF n.c # "fin" THEN NaN
    ELSE IF OutOfTimeRange(n) THEN NaN
    ELSE Truncate(n)

\* Date.parse on the sample strings: ISO date strings give their UTC
\* timestamp, anything else is not a date.
DateParse(s) ==
    CASE s = "2023-01-01"               -> Fin(1672, 531200000, 0)
      [] s = "1970-01-01"               -> Zero
      [] s = "1970-01-01T00:00:00.001Z" -> Fin(0, 1, 0)
      [] s = "1969-12-31T23:59:59.999Z" -> Fin(-1, Base - 1, 0)
      [] OTHER                          -> NaN

\* JavaScript values: t is the kind of value, id the identity of an object
\* (0 for primitives), n the Number or the time value of a Date, s the text
\* of a String, b the Boolean / the "conversion throws" flag of an object.
JSVal(t, id, n, s, b) == [t |-> t, id |-> id, n |-> n, s |-> s, b |-> b]

Undefined    == JSVal("undefined", 0, NaN, "", FALSE)
Null         == JSVal("null", 0, NaN, "", FALSE)
Bool(b)      == JSVal("boolean", 0, NaN, "", b)
Num(n)       == JSVal("number", 0, n, "", FALSE)
Str(s)       == JSVal("string", 0, NaN, s, FALSE)
Sym          == JSVal("symbol", 0, NaN, "", FALSE)
\* a plain object; b = TRUE when its conversion to a primitive throws
Obj(id, b)   == JSVal("object", id, NaN, "", b)
\* a Date instance with time value tv
DateObj(id, tv) == JSVal("date", id, tv, "", FALSE)

\* Object identities: the two arguments, and the Date a call creates.
ValueId   == 1
DefaultId == 2
FreshId   == 3

\* Outcomes of a call.
Ret(v)   == [kind |-> "return", val |-> v, err |-> ""]
Throw(e) == [kind |-> "throw", val |-> Undefined, err |-> e]
NoOutcome == [kind |-> "none", val |-> Undefined, err |-> ""]

\* `typeof v`
TypeOf(v) ==
    CASE v.t = "undefined" -> "undefined"
      [] v.t = "null"      -> "object"
      [] v.t = "date"      -> "object"
      [] OTHER             -> v.t

\* `v == null`
LooseEqNull(v) == v.t \in {"null", "undefined"}

\* `v === undefined`
StrictEqUndefined(v) == v.t = "undefined"

\* `v instanceof Date`
InstanceofDate(v) == v.t = "date"

\* `v.getTime()`: a TypeError unless v is a Date.
GetTime(v) ==
    IF v.t = "date" THEN Ret(Num(v.n)) ELSE Throw("TypeError")

\* `new Date(v)` with one argument.
NewDate(v) ==
    CASE v.t = "number"    -> Ret(DateObj(FreshId, TimeClip(v.n)))
      [] v.t = "string"    -> Ret(DateObj(FreshId, DateParse(v.s)))
      [] v.t = "date"      -> Ret(DateObj(FreshId, v.n))
      [] v.t = "null"      -> Ret(DateObj(FreshId, Zero))
      [] v.t = "undefined" -> Ret(DateObj(FreshId, NaN))
      [] v.t = "boolean"   -> Ret(DateObj(FreshId, IF v.b THEN Fin(0, 1, 0) ELSE Zero))
      [] v.t = "symbol"    -> Throw("TypeError")
      [] OTHER             -> IF v.b THEN Throw("TypeError")
                              ELSE Ret(DateObj(FreshId, NaN))


(***************************************************************************)
(*              The library functions (app/code.ts, type-check.ts)         *)
(***************************************************************************)

\* Slip: the converted Date is returned without looking at its timestamp.
toDate_unchecked(value, defaultValue) ==
    IF LooseEqNull(value) \/ StrictEqUndefined(value) THEN Ret(defaultValue)
    ELSE IF InstanceofDate(value) THEN Ret(value)
    ELSE IF TypeOf(value) = "string" \/ TypeOf(value) = "number"
         THEN NewDate(value)
    ELSE Ret(defaultValue)

\* Slip: every value that is not null/undefined/Date is handed to new Date.
toDate_unguarded(value, defaultValue) ==
    IF LooseEqNull(value) \/ StrictEqUndefined(value) THEN Ret(defaultValue)
    ELSE IF InstanceofDate(value)
         THEN IF NumberIsNaN(value.n) THEN Ret(defaultValue) ELSE Ret(value)
    ELSE LET d == NewDate(value) IN
         IF d.kind = "throw" THEN d
         ELSE IF NumberIsNaN(d.val.n) THEN Ret(defaultValue) ELSE d

\* Slip: the Date made from a string or number is returned without a look at
\* its timestamp.
toDate_rawDate(value, defaultValue) ==
    IF LooseEqNull(value) \/ StrictEqUndefined(value) THEN Ret(defaultValue)
    ELSE IF InstanceofDate(value) THEN
        LET t == GetTime(value) IN
        IF t.kind = "throw" THEN t
        ELSE IF NumberIsNaN(t.val.n) THEN Ret(defaultValue) ELSE Ret(value)
    ELSE IF TypeOf(value) = "string" \/ TypeOf(value) = "number" THEN
        NewDate(value)
    ELSE Ret(defaultValue)

\* export function toDate(value: DateValue, defaultValue?: Date)
toDate(value, defaultValue) ==
    IF LooseEqNull(value) \/ StrictEqUndefined(value) THEN Ret(defaultValue)
    ELSE IF InstanceofDate(value) THEN
        LET t == GetTime(value) IN
        IF t.kind = "throw" THEN t
        ELSE IF NumberIsNaN(t.val.n) THEN Ret(defaultValue) ELSE Ret(value)
    ELSE IF TypeOf(value) = "string" \/ TypeOf(value) = "number" THEN
        LET date == NewDate(value) IN
        IF date.kind = "throw" THEN date
        ELSE LET t == GetTime(date.val) IN
             IF t.kind = "throw" THEN t
             ELSE IF NumberIsNaN(t.val.n) THEN Ret(defaultValue)
             ELSE Ret(date.val)
    ELSE Ret(defaultValue)

\* Slip: the undefined result is passed on instead of thrown.
toDateStrict_nothrow(value, defaultValue) ==
    toDate(value, defaultValue)

\* export function toDateStrict(value: DateValue, defaultValue?: Date)
toDateStrict(value, defaultValue) ==
    LET date == toDate(value, defaultValue) IN
    IF date.kind = "throw" THEN date
    ELSE IF StrictEqUndefined(date.val) THEN Throw("TypeError")
    ELSE Ret(date.val)

\* app/code.js: function toDate(value, defaultValue)
jsToDate(value, defaultValue) ==
    IF LooseEqNull(value) \/ StrictEqUndefined(value) THEN Ret(defaultValue)
    ELSE IF InstanceofDate(value) THEN
        LET t == GetTime(value) IN
        IF t.kind = "throw" THEN t
        ELSE IF NumberIsNaN(t.val.n) THEN Ret(defaultValue) ELSE Ret(value)
    ELSE IF TypeOf(value) = "string" \/ TypeOf(value) = "number" THEN
        LET date == NewDate(value) IN
        IF date.kind = "throw" THEN date
        ELSE LET t == GetTime(date.val) IN
             IF t.kind = "throw" THEN t
             ELSE IF NumberIsNaN(t.val.n) THEN Ret(defaultValue)
             ELSE Ret(date.val)
    ELSE Ret(defaultValue)

\* Slip: the result is compared with == instead of ===, so null counts as
\* no result.
jsToDateStrict_loose(value, defaultValue) ==
    LET date == jsToDate(value, defaultValue) IN
    IF date.kind = "throw" THEN date
    ELSE IF LooseEqNull(date.val) THEN Throw("TypeError")
    ELSE Ret(date.val)

\* app/code.js: function toDateStrict(value, defaultValue); void 0 evaluates
\* to undefined
jsToDateStrict(value, defaultValue) ==
    LET date == jsToDate(value, defaultValue) IN
    IF date.kind = "throw" THEN date
    ELSE IF StrictEqUndefined(date.val) THEN Throw("TypeError")
    ELSE Ret(date.val)

\* Slip: only the instanceof test, the timestamp is not looked at.
isDate_instanceOnly(value) ==
    Ret(Bool(InstanceofDate(value)))

\* export function isDate(value: unknown): boolean
isDate(value) ==
    IF ~InstanceofDate(value) THEN Ret(Bool(FALSE))
    ELSE LET t == GetTime(value) IN
         IF t.kind = "throw" THEN t
         ELSE Ret(Bool(~NumberIsNaN(t.val.n)))

(***************************************************************************)
(*                    Inputs of the library calls                          *)
(***************************************************************************)

\* Numbers around zero, around a present-day timestamp and around both ends
\* of the Date range, whole and half, plus the non-finite ones.
NumberSamples ==
    {NaN, PosInf, NegInf}
    \cup { Fin(h, l, half) :
             h \in {-MaxTimeHi - 1, -MaxTimeHi, -1, 0, 1672, MaxTimeHi},
             l \in (0 .. NumSpan) \cup ((Base - 1 - NumSpan) .. (Base - 1)),
             half \in {0, 1} }

StringSamples ==
    {"2023-01-01", "1970-01-01", "1970-01-01T00:00:00.001Z",
     "1969-12-31T23:59:59.999Z", "not-a-date", "bad-input", "invalid", ""}

\* The time values a Date object can hold.
TimeSamples == { TimeClip(n) : n \in NumberSamples }

Values ==
    {Undefined, Null, Bool(TRUE), Bool(FALSE), Sym,
     Obj(ValueId, FALSE), Obj(ValueId, TRUE)}
    \cup { Num(n) : n \in NumberSamples }
    \cup { Str(s) : s \in StringSamples }
    \cup { DateObj(ValueId, tv) : tv \in TimeSamples }

\* defaultValue: not supplied (undefined), a fallback Date, and the values
\* an untyped caller can pass.
Defaults ==
    {Undefined, Null, DateObj(DefaultId, Fin(1672, 531200000, 0)),
     DateObj(DefaultId, Zero), DateObj(DefaultId, NaN)}


(***************************************************************************)
(*                    PART II  -  the build scripts                        *)
(***************************************************************************)

\* Bounds of the build model.
MaxSources == 2      \* source files the glob can match

\* The build scripts of the repository.
Variants == {"gas1", "gas2", "gas3", "npm0", "types0", "types1", "types2",
             "jsdoc", "cli", "npm1", "npm2"}

\* The source files `./app/**/*.ts` can match, by index, with the output
\* names basename() gives them.
SourceRel == << <<"code.ts">>, <<"sub", "code.ts">>, <<"index.ts">>,
                <<"type-check.ts">> >>
TsName == <<"code.ts", "code.ts", "index.ts", "type-check.ts">>
JsName == <<"code.js", "code.js", "index.js", "type-check.js">>
SourceIds == 1 .. MaxSources

\* The directory the script globs: ./app, or <cwd>/src for the CLI bundler.
SourceDir(v) == IF v = "cli" THEN <<"user", "src">> ELSE <<"app">>
SourcePath(v, i) == SourceDir(v) \o SourceRel[i]

\* const outputDir = ...
OutputDir(v) ==
    CASE v \in {"gas1", "gas2"}               -> <<"dist", "gas-lib">>
      [] v = "gas3"                           -> <<"dist", "gas">>
      [] v = "npm0"                           -> <<"dist", "npm">>
      [] v \in {"types0", "types1", "types2"} -> <<"dist", "npm-types">>
      [] v = "jsdoc"                          -> <<"dist", "gas-types">>
      [] v = "cli"                            -> <<"user", "dist">>
      [] OTHER                                -> <<"dist", "npm-lib">>

\* The scripts that start with rm(outputDir, {recursive, force}).
Cleans(v) == v \in {"gas1", "gas2", "types1", "types2", "jsdoc", "cli",
                    "npm1", "npm2"}

TsConfig      == <<"tsconfig.json">>
PackageJson   == <<"package.json">>
AppsScript    == <<"app", "appsscript.json">>
CliBundler    == <<"scripts", "cli-bundler.js">>
TypesReadme   == <<"docs", "npm-types-readme.md">>
LibReadme     == <<"docs", "npm-lib-readme.md">>
GasTypesDoc   == <<"docs", "gas-types.js">>
NoPath        == << >>

\* The files a script reads besides the sources.
Inputs(v) ==
    CASE v \in {"gas1", "gas2", "gas3"} -> {TsConfig, AppsScript}
      [] v \in {"npm0", "types0", "jsdoc"} -> {TsConfig}
      [] v = "types1" -> {TsConfig, PackageJson}
      [] v = "types2" -> {TsConfig, PackageJson, TypesReadme}
      [] v = "npm1"   -> {TsConfig, CliBundler}
      [] v = "npm2"   -> {TsConfig, CliBundler, PackageJson, LibReadme}
      [] OTHER        -> {}

AllInputs == {TsConfig, PackageJson, AppsScript, CliBundler, TypesReadme,
              LibReadme}

\* File contents: what kind of text, rendered from which sources, and
\* whether the current invocation wrote it (age 0) or it was there before
\* the invocation started (age 1).
Content(k, of, age) == [kind |-> k, of |-> of, age |-> age]
Absent == Content("absent", {}, 1)
Stale  == Content("stale", {}, 1)
Given  == Content("given", {}, 1)

\* A new invocation starts: what is on disk is from before it.
Aged(c) == [c EXCEPT !.age = 1]

\* One step of a script: the operation, the path it changes, the file it
\* needs, what it writes, and whether it sits inside a try block.
Step(op, path, from, kind, of, try) ==
    [op |-> op, path |-> path, from |-> from, kind |-> kind, of |-> of,
     try |-> try]

Load(from)        == Step("load", NoPath, from, "", {}, FALSE)
Check             == Step("check", NoPath, NoPath, "", {}, FALSE)
Rm(dir)           == Step("rm", dir, NoPath, "", {}, FALSE)
Mkdir(dir)        == Step("mkdir", dir, NoPath, "", {}, FALSE)
Write(path, k, of) == Step("write", path, NoPath, k, of, FALSE)
Read(from)        == Step("read", NoPath, from, "", {}, FALSE)
Copy(from, path)  == Step("copy", path, from, "copy", {}, FALSE)
Log               == Step("log", NoPath, NoPath, "", {}, FALSE)
TryRead(from)     == Step("read", NoPath, from, "", {}, TRUE)
TryWrite(path, k) == Step("write", path, NoPath, k, {}, TRUE)

\* The matched source files in glob order.
RECURSIVE SortedSeq(_)
SortedSeq(S) ==
    IF S = {} THEN << >>
    ELSE LET m == CHOOSE x \in S : \A y \in S : x <= y
         IN <<m>> \o SortedSeq(S \ {m})

\* for (const sourceFile of sourceFiles) await writeFile(join(dir, name), ...)
PerSource(v, dir, names, kind, srcs) ==
    [k \in 1 .. Len(srcs) |->
        Write(dir \o <<names[srcs[k]]>>, kind, {SourcePath(v, srcs[k])})]


\* The statements every script (but the CLI bundler) starts with:
\* new Project({tsConfigFilePath}), [rm(outputDir)], mkdir(dir).
Prologue(v, dir) ==
    IF Cleans(v) THEN <<Load(TsConfig), Rm(OutputDir(v)), Mkdir(dir)>>
    ELSE <<Load(TsConfig), Mkdir(dir)>>

\* The statements of each script, in program order, for the matched source
\* files srcs (imports: some user file imports the utility package).
Steps(v, srcs, imports) ==
    LET out == OutputDir(v)
        all == {SourcePath(v, srcs[k]) : k \in 1 .. Len(srcs)}
    IN
    CASE v \in {"gas1", "gas2", "gas3"} ->
            Prologue(v, out)
            \o PerSource(v, out, JsName, "js", srcs)
            \o <<TryRead(AppsScript),
                 TryWrite(out \o <<"appsscript.json">>, "copy"),
                 Log>>
      [] v = "npm0" ->
            Prologue(v, out \o <<"src">>)
            \o PerSource(v, out \o <<"src">>, TsName, "ts", srcs)
            \o <<Write(out \o <<"src", "index.ts">>, "index", all),
                 Write(out \o <<"package.json">>, "pkg", {}),
                 Write(out \o <<"tsconfig.json">>, "tsconfig", {}),
                 Write(out \o <<"README.md">>, "readme", {}),
                 Write(out \o <<".npmignore">>, "npmignore", {}),
                 Log>>
      [] v = "types0" ->
            Prologue(v, out)
            \o <<Write(out \o <<"types.d.ts">>, "dts", all), Log>>
      [] v = "types1" ->
            Prologue(v, out)
            \o <<Write(out \o <<"index.d.ts">>, "dts", all),
                 Read(PackageJson),
                 Write(out \o <<"package.json">>, "pkg", {}),
                 Read(PackageJson),
                 Write(out \o <<"README.md">>, "readme", {}),
                 Write(out \o <<".npmignore">>, "npmignore", {}),
                 Log>>
      [] v = "types2" ->
            Prologue(v, out)
            \o <<Write(out \o <<"index.d.ts">>, "dts", all),
                 Read(PackageJson),
                 Write(out \o <<"package.json">>, "pkg", {}),
                 Copy(TypesReadme, out \o <<"README.md">>),
                 Write(out \o <<".npmignore">>, "npmignore", {}),
                 Log>>
      [] v = "jsdoc" ->
            Prologue(v, out)
            \o <<Write(out \o <<"types.js">>, "jsdoc", all),
                 Mkdir(<<"docs">>),
                 Write(GasTypesDoc, "jsdoc", all),
                 Log>>
      [] v = "cli" ->
            <<Load(NoPath), Check, Rm(out), Mkdir(out),
              Mkdir(out \o <<"lib">>)>>
            \o PerSource(v, out, JsName, "js", srcs)
            \o (IF imports
                THEN <<Write(out \o <<"lib", "gas-utils.js">>, "bundle", {})>>
                ELSE << >>)
            \o <<Write(out \o <<"appsscript.json">>, "manifest", {}), Log>>
      [] v = "npm1" ->
            Prologue(v, out \o <<"src">>)
            \o PerSource(v, out \o <<"src">>, TsName, "ts", srcs)
            \o <<Write(out \o <<"src", "index.ts">>, "index", all),
                 Read(CliBundler),
                 Mkdir(out \o <<"bin">>),
                 Write(out \o <<"bin", "gas-utils-build.js">>, "bundler", {}),
                 Write(out \o <<"package.json">>, "pkg", {}),
                 Write(out \o <<"tsconfig.json">>, "tsconfig", {}),
                 Write(out \o <<"README.md">>, "readme", {}),
                 Write(out \o <<".npmignore">>, "npmignore", {}),
                 Log>>
      [] OTHER ->
            Prologue(v, out \o <<"src">>)
            \o PerSource(v, out \o <<"src">>, TsName, "ts", srcs)
            \o <<Write(out \o <<"src", "index.ts">>, "index", all),
                 Read(CliBundler),
                 Mkdir(out \o <<"bin">>),
                 Write(out \o <<"bin", "gas-utils-build.js">>, "bundler", {}),
                 Read(PackageJson),
                 Write(out \o <<"package.json">>, "pkg", {}),
                 Write(out \o <<"tsconfig.json">>, "tsconfig", {}),
                 Copy(LibReadme, out \o <<"README.md">>),
                 Write(out \o <<".npmignore">>, "npmignore", {}),
                 Log>>

\* Every path of the modelled file system.
FullProgram(v) == Steps(v, SortedSeq(SourceIds), TRUE)
OutPaths(v) ==
    {FullProgram(v)[k].path :
        k \in {j \in 1 .. Len(FullProgram(v)) :
                 FullProgram(v)[j].op \in {"write", "copy"}}}
    \cup {OutputDir(v) \o <<"stale.txt">>}

\* A file next to the output directory, owned by nobody.
Sibling(v) == <<Head(OutputDir(v)), "keep.txt">>

\* The paths followed for script v: its sources and inputs, the whole of its
\* output directory (also what other scripts put there), ./docs, a sibling.
Paths(v) ==
    {SourcePath(v, i) : i \in SourceIds}
    \cup AllInputs \cup {GasTypesDoc, Sibling(v)}
    \cup UNION {OutPaths(w) : w \in {x \in Variants : OutputDir(x) = OutputDir(v)}}

\* p lies in the directory dir (at any depth).
Under(dir, p) == Len(p) > Len(dir) /\ SubSeq(p, 1, Len(dir)) = dir

\* Slip: the directory above the output directory is removed.
RmTargets_parent(dir, p) == Under(<<Head(dir)>>, p)

\* Slip: rm without { recursive: true } semantics, sub-directories survive.
RmTargets_flat(dir, p) == Under(dir, p) /\ Len(p) = Len(dir) + 1

\* rm(dir, { recursive: true, force: true }) removes p.
RmTargets(dir, p) == Under(dir, p)


(***************************************************************************)
(*          PART III  -  export extraction and the renderers               *)
(***************************************************************************)

\* Text is a sequence of tokens: a run of letters is one token, every other
\* character (a blank, a line break "\n", a punctuation mark) is a token of
\* its own.  All characters of a token are in the same character classes
\* of the patterns below.

\* How many declarations the source files of a project hold together.
MaxDecls == 2

\* export type DateValue = Date | number | string | null | undefined
DeclDateValue ==
    [kind |-> "type", name |-> "DateValue", exported |-> TRUE,
     doc |-> 
        <<"/", "*", "*", "\n", " ", "*", " ", "Valid", " ", "date", " ",
          "value", " ", "types", " ", "that", " ", "can", " ", "be", " ",
          "converted", " ", "to", " ", "Date", "\n", " ", "*", "/">>,
     params |-> <<>>,
     ret |-> << >>,
     def |-> <<"Date", " ", "|", " ", "number", " ", "|", " ", "string", " ", "|", " ", "null", " ", "|", " ", "undefined">>,
     body |-> << >>,
     text |-> 
        <<"/", "*", "*", "\n", " ", "*", " ", "Valid", " ", "date", " ",
          "value", " ", "types", " ", "that", " ", "can", " ", "be", " ",
          "converted", " ", "to", " ", "Date", "\n", " ", "*", "/", "\n",
          "export", " ", "type", " ", "DateValue", " ", "=", " ", "Date",
          " ", "|", " ", "number", " ", "|", " ", "string", " ", "|", " ",
          "null", " ", "|", " ", "undefined">>]

\* export function toDate(value: DateValue, defaultValue?: Date): Date | undefined {
DeclToDate ==
    [kind |-> "function", name |-> "toDate", exported |-> TRUE,
     doc |-> 
        <<"/", "*", "*", "\n", " ", "*", " ", "Returns", " ", "a", " ",
          "Date", " ", "from", " ", "the", " ", "specified", " ",
          "argument", ".", "\n", " ", "*", " ", "@", "param", " ", "value",
          " ", "-", " ", "The", " ", "value", " ", "to", " ", "convert",
          " ", "to", " ", "Date", "\n", " ", "*", " ", "@", "param", " ",
          "defaultValue", " ", "-", " ", "Default", " ", "Date", " ", "to",
          " ", "return", " ", "if", " ", "conversion", " ", "fails", "\n",
          " ", "*", " ", "@", "returns", " ", "Date", " ", "object", " ",
          "or", " ", "defaultValue", " ", "if", " ", "conversion", " ",
          "fails", "\n", " ", "*", "/">>,
     params |-> <<[name |-> "value", type |-> <<"DateValue">>, opt |-> FALSE], [name |-> "defaultValue", type |-> <<"Date">>, opt |-> TRUE]>>,
     ret |-> <<"Date", " ", "|", " ", "undefined">>,
     def |-> << >>,
     body |-> 
        <<"if", " ", "(", "value", " ", "=", "=", " ", "null", " ", "|",
          "|", " ", "value", " ", "=", "=", "=", " ", "undefined", ")", " ",
          "return", " ", "defaultValue", "\n", "if", " ", "(", "value", " ",
          "instanceof", " ", "Date", ")", " ", "return", " ", "Number", ".",
          "isNaN", "(", "value", ".", "getTime", "(", ")", ")", " ", "?",
          " ", "defaultValue", " ", ":", " ", "value", "\n", "if", " ", "(",
          "typeof", " ", "value", " ", "=", "=", "=", " ", "'", "string",
          "'", " ", "|", "|", " ", "typeof", " ", "value", " ", "=", "=",
          "=", " ", "'", "number", "'", ")", " ", "{", "\n", " ", " ",
          "const", " ", "date", " ", "=", " ", "new", " ", "Date", "(",
          "value", ")", "\n", " ", " ", "return", " ", "Number", ".",
          "isNaN", "(", "date", ".", "getTime", "(", ")", ")", " ", "?",
          " ", "defaultValue", " ", ":", " ", "date", "\n", "}", "\n",
          "return", " ", "defaultValue">>,
     text |-> 
        <<"/", "*", "*", "\n", " ", "*", " ", "Returns", " ", "a", " ",
          "Date", " ", "from", " ", "the", " ", "specified", " ",
          "argument", ".", "\n", " ", "*", " ", "@", "param", " ", "value",
          " ", "-", " ", "The", " ", "value", " ", "to", " ", "convert",
          " ", "to", " ", "Date", "\n", " ", "*", " ", "@", "param", " ",
          "defaultValue", " ", "-", " ", "Default", " ", "Date", " ", "to",
          " ", "return", " ", "if", " ", "conversion", " ", "fails", "\n",
          " ", "*", " ", "@", "returns", " ", "Date", " ", "object", " ",
          "or", " ", "defaultValue", " ", "if", " ", "conversion", " ",
          "fails", "\n", " ", "*", "/", "\n", "export", " ", "function",
          " ", "toDate", "(", "value", ":", " ", "DateValue", ",", " ",
          "defaultValue", "?", ":", " ", "Date", ")", ":", " ", "Date", " ",
          "|", " ", "undefined", " ", "{", "\n", " ", " ", "if", " ", "(",
          "value", " ", "=", "=", " ", "null", " ", "|", "|", " ", "value",
          " ", "=", "=", "=", " ", "undefined", ")", " ", "return", " ",
          "defaultValue", "\n", " ", " ", "if", " ", "(", "value", " ",
          "instanceof", " ", "Date", ")", " ", "return", " ", "Number", ".",
          "isNaN", "(", "value", ".", "getTime", "(", ")", ")", " ", "?",
          " ", "defaultValue", " ", ":", " ", "value", "\n", " ", " ", "if",
          " ", "(", "typeof", " ", "value", " ", "=", "=", "=", " ", "'",
          "string", "'", " ", "|", "|", " ", "typeof", " ", "value", " ",
          "=", "=", "=", " ", "'", "number", "'", ")", " ", "{", "\n", " ",
          " ", " ", " ", "const", " ", "date", " ", "=", " ", "new", " ",
          "Date", "(", "value", ")", "\n", " ", " ", " ", " ", "return",
          " ", "Number", ".", "isNaN", "(", "date", ".", "getTime", "(",
          ")", ")", " ", "?", " ", "defaultValue", " ", ":", " ", "date",
          "\n", " ", " ", "}", "\n", " ", " ", "return", " ",
          "defaultValue", "\n", "}">>]

\* export function toDateStrict(value: DateValue, defaultValue?: Date): Date {
DeclToDateStrict ==
    [kind |-> "function", name |-> "toDateStrict", exported |-> TRUE,
     doc |-> 
        <<"/", "*", "*", "\n", " ", "*", " ", "Returns", " ", "a", " ",
          "Date", " ", "from", " ", "the", " ", "specified", " ",
          "argument", ",", " ", "throwing", " ", "if", " ", "conversion",
          " ", "fails", ".", "\n", " ", "*", " ", "@", "param", " ",
          "value", " ", "-", " ", "The", " ", "value", " ", "to", " ",
          "convert", " ", "to", " ", "Date", "\n", " ", "*", " ", "@",
          "param", " ", "defaultValue", " ", "-", " ", "Default", " ",
          "Date", " ", "to", " ", "return", " ", "if", " ", "conversion",
          " ", "fails", "\n", " ", "*", " ", "@", "returns", " ", "Date",
          " ", "object", "\n", " ", "*", " ", "@", "throws", " ",
          "TypeError", " ", "if", " ", "value", " ", "cannot", " ", "be",
          " ", "converted", " ", "to", " ", "Date", " ", "and", " ", "no",
          " ", "default", " ", "provided", "\n", " ", "*", "/">>,
     params |-> <<[name |-> "value", type |-> <<"DateValue">>, opt |-> FALSE], [name |-> "defaultValue", type |-> <<"Date">>, opt |-> TRUE]>>,
     ret |-> <<"Date">>,
     def |-> << >>,
     body |-> 
        <<"const", " ", "date", " ", "=", " ", "toDate", "(", "value", ",",
          " ", "defaultValue", ")", "\n", "if", " ", "(", "date", " ", "=",
          "=", "=", " ", "undefined", ")", " ", "throw", " ", "new", " ",
          "TypeError", "(", "'", "Value", " ", "cannot", " ", "be", " ",
          "converted", " ", "to", " ", "Date", "'", ")", "\n", "return",
          " ", "date">>,
     text |-> 
        <<"/", "*", "*", "\n", " ", "*", " ", "Returns", " ", "a", " ",
          "Date", " ", "from", " ", "the", " ", "specified", " ",
          "argument", ",", " ", "throwing", " ", "if", " ", "conversion",
          " ", "fails", ".", "\n", " ", "*", " ", "@", "param", " ",
          "value", " ", "-", " ", "The", " ", "value", " ", "to", " ",
          "convert", " ", "to", " ", "Date", "\n", " ", "*", " ", "@",
          "param", " ", "defaultValue", " ", "-", " ", "Default", " ",
          "Date", " ", "to", " ", "return", " ", "if", " ", "conversion",
          " ", "fails", "\n", " ", "*", " ", "@", "returns", " ", "Date",
          " ", "object", "\n", " ", "*", " ", "@", "throws", " ",
          "TypeError", " ", "if", " ", "value", " ", "cannot", " ", "be",
          " ", "converted", " ", "to", " ", "Date", " ", "and", " ", "no",
          " ", "default", " ", "provided", "\n", " ", "*", "/", "\n",
          "export", " ", "function", " ", "toDateStrict", "(", "value", ":",
          " ", "DateValue", ",", " ", "defaultValue", "?", ":", " ", "Date",
          ")", ":", " ", "Date", " ", "{", "\n", " ", " ", "const", " ",
          "date", " ", "=", " ", "toDate", "(", "value", ",", " ",
          "defaultValue", ")", "\n", " ", " ", "if", " ", "(", "date", " ",
          "=", "=", "=", " ", "undefined", ")", " ", "throw", " ", "new",
          " ", "TypeError", "(", "'", "Value", " ", "cannot", " ", "be",
          " ", "converted", " ", "to", " ", "Date", "'", ")", "\n", " ",
          " ", "return", " ", "date", "\n", "}">>]

\* export function isDate(value: unknown): boolean {
DeclIsDate ==
    [kind |-> "function", name |-> "isDate", exported |-> TRUE,
     doc |-> 
        <<"/", "*", "*", "\n", " ", "*", " ", "Returns", " ", "true", " ",
          "if", " ", "the", " ", "value", " ", "is", " ", "a", " ", "valid",
          " ", "Date", " ", "object", "\n", " ", "*", " ", "@", "param",
          " ", "value", " ", "-", " ", "The", " ", "value", " ", "to", " ",
          "convert", " ", "to", " ", "Date", "\n", " ", "*", "/">>,
     params |-> <<[name |-> "value", type |-> <<"unknown">>, opt |-> FALSE]>>,
     ret |-> <<"boolean">>,
     def |-> << >>,
     body |-> 
        <<"return", " ", "value", " ", "instanceof", " ", "Date", " ", "&",
          "&", " ", "!", "Number", ".", "isNaN", "(", "value", ".",
          "getTime", "(", ")", ")">>,
     text |-> 
        <<"/", "*", "*", "\n", " ", "*", " ", "Returns", " ", "true", " ",
          "if", " ", "the", " ", "value", " ", "is", " ", "a", " ", "valid",
          " ", "Date", " ", "object", "\n", " ", "*", " ", "@", "param",
          " ", "value", " ", "-", " ", "The", " ", "value", " ", "to", " ",
          "convert", " ", "to", " ", "Date", "\n", " ", "*", "/", "\n",
          "export", " ", "function", " ", "isDate", "(", "value", ":", " ",
          "unknown", ")", ":", " ", "boolean", " ", "{", "\n", " ", " ",
          "return", " ", "value", " ", "instanceof", " ", "Date", " ", "&",
          "&", " ", "!", "Number", ".", "isNaN", "(", "value", ".",
          "getTime", "(", ")", ")", "\n", "}">>]

\* type Millis = number
DeclMillis ==
    [kind |-> "type", name |-> "Millis", exported |-> FALSE,
     doc |-> << >>,
     params |-> <<>>,
     ret |-> << >>,
     def |-> <<"number">>,
     body |-> << >>,
     text |-> 
        <<"type", " ", "Millis", " ", "=", " ", "number">>]

\* function pad(n: number): string {
DeclPad ==
    [kind |-> "function", name |-> "pad", exported |-> FALSE,
     doc |-> 
        <<"/", "*", "*", "\n", " ", "*", " ", "Pads", " ", "a", " ",
          "number", ".", "\n", " ", "*", " ", "@", "param", " ", "n", " ",
          "-", " ", "The", " ", "number", "\n", " ", "*", " ", "@",
          "returns", " ", "The", " ", "text", "\n", " ", "*", "/">>,
     params |-> <<[name |-> "n", type |-> <<"number">>, opt |-> FALSE]>>,
     ret |-> <<"string">>,
     def |-> << >>,
     body |-> 
        <<"return", " ", "String", "(", "n", ")">>,
     text |-> 
        <<"/", "*", "*", "\n", " ", "*", " ", "Pads", " ", "a", " ",
          "number", ".", "\n", " ", "*", " ", "@", "param", " ", "n", " ",
          "-", " ", "The", " ", "number", "\n", " ", "*", " ", "@",
          "returns", " ", "The", " ", "text", "\n", " ", "*", "/", "\n",
          "function", " ", "pad", "(", "n", ":", " ", "number", ")", ":",
          " ", "string", " ", "{", "\n", " ", " ", "return", " ", "String",
          "(", "n", ")", "\n", "}">>]

\* export function now(): Date {
DeclNow ==
    [kind |-> "function", name |-> "now", exported |-> TRUE,
     doc |-> << >>,
     params |-> <<>>,
     ret |-> <<"Date">>,
     def |-> << >>,
     body |-> 
        <<"return", " ", "new", " ", "Date", "(", ")">>,
     text |-> 
        <<"export", " ", "function", " ", "now", "(", ")", ":", " ", "Date",
          " ", "{", "\n", " ", " ", "return", " ", "new", " ", "Date", "(",
          ")", "\n", "}">>]

\* export function addDays(date: Date, days: number): Date {
DeclAddDays ==
    [kind |-> "function", name |-> "addDays", exported |-> TRUE,
     doc |-> 
        <<"/", "*", "*", "\n", " ", "*", " ", "Adds", " ", "days", " ",
          "to", " ", "a", " ", "date", ".", "\n", " ", "*", " ", "@",
          "deprecated", " ", "use", " ", "plus", "\n", " ", "*", " ", "@",
          "param", " ", "date", " ", "-", " ", "The", " ", "start", " ",
          "date", "\n", " ", "*", " ", "@", "param", " ", "days", " ", "-",
          " ", "The", " ", "non", "-", "negative", " ", "count", "\n", " ",
          "*", " ", "@", "returns", " ", "-", " ", "The", " ", "shifted",
          " ", "date", "\n", " ", "*", " ", "@", "see", " ", "toDate", "\n",
          " ", "*", "/">>,
     params |-> <<[name |-> "date", type |-> <<"Date">>, opt |-> FALSE], [name |-> "days", type |-> <<"number">>, opt |-> FALSE]>>,
     ret |-> <<"Date">>,
     def |-> << >>,
     body |-> 
        <<"return", " ", "new", " ", "Date", "(", "date", ".", "getTime",
          "(", ")", " ", "+", " ", "days", ")">>,
     text |-> 
        <<"/", "*", "*", "\n", " ", "*", " ", "Adds", " ", "days", " ",
          "to", " ", "a", " ", "date", ".", "\n", " ", "*", " ", "@",
          "deprecated", " ", "use", " ", "plus", "\n", " ", "*", " ", "@",
          "param", " ", "date", " ", "-", " ", "The", " ", "start", " ",
          "date", "\n", " ", "*", " ", "@", "param", " ", "days", " ", "-",
          " ", "The", " ", "non", "-", "negative", " ", "count", "\n", " ",
          "*", " ", "@", "returns", " ", "-", " ", "The", " ", "shifted",
          " ", "date", "\n", " ", "*", " ", "@", "see", " ", "toDate", "\n",
          " ", "*", "/", "\n", "export", " ", "function", " ", "addDays",
          "(", "date", ":", " ", "Date", ",", " ", "days", ":", " ",
          "number", ")", ":", " ", "Date", " ", "{", "\n", " ", " ",
          "return", " ", "new", " ", "Date", "(", "date", ".", "getTime",
          "(", ")", " ", "+", " ", "days", ")", "\n", "}">>]

\* export interface Range {
DeclRange ==
    [kind |-> "interface", name |-> "Range", exported |-> TRUE,
     doc |-> << >>,
     params |-> <<>>,
     ret |-> << >>,
     def |-> << >>,
     body |-> << >>,
     text |-> 
        <<"export", " ", "interface", " ", "Range", " ", "{", "\n", " ",
          " ", "from", ":", " ", "Date", "\n", "}">>]

\* export function orElse(defaultValue: Date, value: DateValue): Date, the
\* parameters of toDate documented and declared the other way round
DeclOrElse ==
    [kind |-> "function", name |-> "orElse", exported |-> TRUE,
     doc |-> 
        <<"/", "*", "*", "\n", " ", "*", " ", "Returns", " ", "a", " ",
          "Date", " ", "from", " ", "the", " ", "specified", " ",
          "argument", ".", "\n", " ", "*", " ", "@", "param", " ",
          "defaultValue", " ", "-", " ", "Default", " ", "Date", " ", "to",
          " ", "return", " ", "if", " ", "conversion", " ", "fails", "\n",
          " ", "*", " ", "@", "param", " ", "value", " ", "-", " ", "The",
          " ", "value", " ", "to", " ", "convert", " ", "to", " ", "Date",
          "\n", " ", "*", " ", "@", "returns", " ", "Date", " ", "object",
          "\n", " ", "*", "/">>,
     params |-> <<[name |-> "defaultValue", type |-> <<"Date">>, opt |-> FALSE],
                 [name |-> "value", type |-> <<"DateValue">>, opt |-> FALSE]>>,
     ret |-> <<"Date">>,
     def |-> << >>,
     body |-> 
        <<"return", " ", "toDateStrict", "(", "value", ",", " ",
          "defaultValue", ")">>,
     text |-> 
        <<"/", "*", "*", "\n", " ", "*", " ", "Returns", " ", "a", " ",
          "Date", " ", "from", " ", "the", " ", "specified", " ",
          "argument", ".", "\n", " ", "*", " ", "@", "param", " ",
          "defaultValue", " ", "-", " ", "Default", " ", "Date", " ", "to",
          " ", "return", " ", "if", " ", "conversion", " ", "fails", "\n",
          " ", "*", " ", "@", "param", " ", "value", " ", "-", " ", "The",
          " ", "value", " ", "to", " ", "convert", " ", "to", " ", "Date",
          "\n", " ", "*", " ", "@", "returns", " ", "Date", " ", "object",
          "\n", " ", "*", "/", "\n", "export", " ", "function", " ",
          "orElse", "(", "defaultValue", ":", " ", "Date", ",", " ",
          "value", ":", " ", "DateValue", ")", ":", " ", "Date", " ", "{",
          "\n", " ", " ", "return", " ", "toDateStrict", "(", "value", ",",
          " ", "defaultValue", ")", "\n", "}">>]

\* The declarations source files are made of.
Pool == <<DeclDateValue, DeclToDate, DeclToDateStrict, DeclIsDate,
          DeclMillis, DeclPad, DeclNow, DeclAddDays, DeclRange, DeclOrElse>>

\* basename(sourceFile.getFilePath(), '.ts') of the two source files.
UnitNames == << <<"code">>, <<"type", "-", "check">> >>

\* The declarations that are combined with one another in a project; orElse
\* is the only declaration of its project.
Combined == {i \in DOMAIN Pool : Pool[i].name # "orElse"}

\* The sequences of at most n different elements of S.
Arrangements(S, n) ==
    {s \in UNION {[1 .. k -> S] : k \in 0 .. n} :
        \A i, j \in DOMAIN s : i # j => s[i] # s[j]}

\* project.getSourceFiles('./app/**/*.ts'): the declarations of code.ts
\* followed by those of type-check.ts, by their index in Pool.
Projects ==
    {<<[name |-> UnitNames[1], decls |-> SubSeq(q[1], 1, q[2])],
       [name |-> UnitNames[2], decls |-> SubSeq(q[1], q[2] + 1, Len(q[1]))]>> :
        q \in {r \in Arrangements(Combined, MaxDecls) \X (0 .. MaxDecls) :
                  r[2] <= Len(r[1])}}
    \cup {<<[name |-> UnitNames[1], decls |-> <<i>>],
             [name |-> UnitNames[2], decls |-> << >>]>> :
             i \in DOMAIN Pool \ Combined}

\* n blanks
Sp(n) == [i \in 1 .. n |-> " "]

\* a.concat(b, c, ...) of token sequences
RECURSIVE Concat(_)
Concat(ss) == IF ss = << >> THEN << >> ELSE Head(ss) \o Concat(Tail(ss))

\* parts.join(sep)
RECURSIVE Join(_, _)
Join(parts, sep) ==
    IF parts = << >> THEN << >>
    ELSE IF Len(parts) = 1 THEN parts[1]
    ELSE parts[1] \o sep \o Join(Tail(parts), sep)

\* text.startsWith(pre), also used at a position: text.startsWith(pre, i - 1)
StartsAt(text, i, pre) ==
    /\ i + Len(pre) - 1 <= Len(text)
    /\ \A k \in 1 .. Len(pre) : text[i + k - 1] = pre[k]
StartsWith(text, pre) == StartsAt(text, 1, pre)

\* text.includes(part)
Includes(text, part) == \E i \in 1 .. (Len(text) + 1) : StartsAt(text, i, part)

\* \s
IsSpace(t) == t \in {" ", "\n"}

\* The least / greatest element of a non-empty set of positions.
Least(S) == CHOOSE i \in S : \A j \in S : i <= j
Greatest(S) == CHOOSE i \in S : \A j \in S : j <= i

\* text.trim()
TrimStart(text) ==
    LET ink == {i \in 1 .. Len(text) : ~IsSpace(text[i])} IN
    IF ink = {} THEN << >> ELSE SubSeq(text, Least(ink), Len(text))
TrimEnd(text) ==
    LET ink == {i \in 1 .. Len(text) : ~IsSpace(text[i])} IN
    IF ink = {} THEN << >> ELSE SubSeq(text, 1, Greatest(ink))
Trim(text) == TrimEnd(TrimStart(text))

\* text.split('\n')
SplitLines(text) ==
    LET breaks == {i \in 1 .. Len(text) : text[i] = "\n"}
        edge   == SortedSeq(breaks \cup {0, Len(text) + 1})
    IN [k \in 1 .. (Len(edge) - 1) |->
           SubSeq(text, edge[k] + 1, edge[k + 1] - 1)]

\* sourceFile.getTypeAliases() / sourceFile.getFunctions(): the declarations
\* of that kind in source order.
getTypeAliases(sourceFile) ==
    SelectSeq(sourceFile.decls, LAMBDA i : Pool[i].kind = "type")

\* Slip: the functions are listed bottom to top.
getFunctions_reversed(sourceFile) ==
    LET fs0 == SelectSeq(sourceFile.decls, LAMBDA i : Pool[i].kind = "function")
    IN [k \in 1 .. Len(fs0) |-> fs0[Len(fs0) + 1 - k]]

getFunctions(sourceFile) ==
    SelectSeq(sourceFile.decls, LAMBDA i : Pool[i].kind = "function")

\* Slip: the filter on the export marker is left out.
isExported_always(i) == TRUE

\* node.isExported()
isExported(i) == Pool[i].exported

\* extractJSDocComment(node): the text of the first JSDoc block of the node,
\* or null (the empty text)
extractJSDocComment(i) == Pool[i].doc

\* node?.getText() || 'any'
OrAny(text) == IF text = << >> THEN <<"any">> ELSE text

\* Slip: types and functions are arrays of the module, so a run starts with
\* what the previous run pushed for the file.
extractExportsFromFile_shared(sourceFile) ==
    LET typeAliases == SelectSeq(getTypeAliases(sourceFile), isExported)
        exportedFunctions == SelectSeq(getFunctions(sourceFile), isExported)
        u == CHOOSE n \in 1 .. Len(project) : project[n].name = sourceFile.name
        kept == IF renderer = "extract" THEN output[u]
                ELSE [types |-> << >>, functions |-> << >>]
    IN [types |->
          kept.types \o
          [k \in 1 .. Len(typeAliases) |->
              [name |-> Pool[typeAliases[k]].name,
               definition |-> OrAny(Pool[typeAliases[k]].def),
               comment |-> extractJSDocComment(typeAliases[k])]],
        functions |->
          kept.functions \o
          [k \in 1 .. Len(exportedFunctions) |->
              [name |-> Pool[exportedFunctions[k]].name,
               parameters |-> Pool[exportedFunctions[k]].params,
               returnType |-> OrAny(Pool[exportedFunctions[k]].ret),
               comment |-> extractJSDocComment(exportedFunctions[k])]]]

\* extractExportsFromFile(sourceFile)
extractExportsFromFile(sourceFile) ==
    LET typeAliases == SelectSeq(getTypeAliases(sourceFile), isExported)
        exportedFunctions == SelectSeq(getFunctions(sourceFile), isExported)
    IN [types |->
          [k \in 1 .. Len(typeAliases) |->
              [name |-> Pool[typeAliases[k]].name,
               definition |-> OrAny(Pool[typeAliases[k]].def),
               comment |-> extractJSDocComment(typeAliases[k])]],
        functions |->
          [k \in 1 .. Len(exportedFunctions) |->
              [name |-> Pool[exportedFunctions[k]].name,
               parameters |-> Pool[exportedFunctions[k]].params,
               returnType |-> OrAny(Pool[exportedFunctions[k]].ret),
               comment |-> extractJSDocComment(exportedFunctions[k])]]]

\* .replace(/\/\*\*|\*\//g, '')
RECURSIVE RemoveDelimiters(_)
RemoveDelimiters(text) ==
    LET hits == {i \in 1 .. Len(text) :
                    \/ StartsAt(text, i, <<"/", "*", "*">>)
                    \/ StartsAt(text, i, <<"*", "/">>)}
    IN IF hits = {} THEN text
       ELSE LET i == Least(hits)
                n == IF StartsAt(text, i, <<"/", "*", "*">>) THEN 3 ELSE 2
            IN SubSeq(text, 1, i - 1)
               \o RemoveDelimiters(SubSeq(text, i + n, Len(text)))

\* .replace(/^\s*\*\s?/gm, '') on one line: the blanks before the leading
\* star, the star and one blank after it go.
StripLeader(line) ==
    LET t == TrimStart(line) IN
    IF t # << >> /\ t[1] = "*"
    THEN IF Len(t) >= 2 /\ IsSpace(t[2]) THEN SubSeq(t, 3, Len(t))
         ELSE Tail(t)
    ELSE line

\* comment.replace(...).replace(...).split('\n').map((line) => line.trim())
\*        .filter((line) => line)
CommentLines(comment) ==
    LET split == SplitLines(RemoveDelimiters(comment))
        lines == [k \in 1 .. Len(split) |-> Trim(StripLeader(split[k]))]
    IN SelectSeq(lines, LAMBDA line : line # << >>)

\* extractCleanComment(jsdocComment)
extractCleanComment(jsdocComment) ==
    IF jsdocComment = << >> THEN << >>
    ELSE Trim(Join(SelectSeq(CommentLines(jsdocComment),
                             LAMBDA line : ~StartsWith(line, <<"@">>)),
                   <<" ">>))

\* allTypes / allFunctions: the exports of all source files, file by file
RECURSIVE Collect(_, _)
Collect(sourceFiles, field) ==
    IF sourceFiles = << >> THEN << >>
    ELSE extractExportsFromFile(Head(sourceFiles))[field]
         \o Collect(Tail(sourceFiles), field)

\* `${paramName}${isOptional ? '?' : ''}: ${paramType}`
ParamSignature(param) ==
    <<param.name>> \o (IF param.opt THEN <<"?">> ELSE << >>)
    \o <<":", " ">> \o OrAny(param.type)

\* signature: `${name}(${paramSignatures}): ${returnType}`
Signature(func) ==
    <<func.name, "(">>
    \o Join([k \in 1 .. Len(func.parameters) |->
                ParamSignature(func.parameters[k])], <<",", " ">>)
    \o <<")", ":", " ">> \o func.returnType

\* Slip: every tag line of the comment is copied.
KeptTag_any(line) == StartsWith(line, <<"@">>)

\* line.startsWith('@param') || line.startsWith('@returns') ||
\* line.startsWith('@throws')
KeptTag(line) ==
    \/ StartsWith(line, <<"@", "param">>)
    \/ StartsWith(line, <<"@", "returns">>)
    \/ StartsWith(line, <<"@", "throws">>)

\* The lines generateTypeDeclarations pushes for one type.
TypeMember(type) ==
    (IF type.comment # << >> /\ Trim(extractCleanComment(type.comment)) # << >>
     THEN <<Sp(4) \o <<"/", "*", "*">>,
            Sp(5) \o <<"*", " ">> \o extractCleanComment(type.comment),
            Sp(5) \o <<"*", "/">>>>
     ELSE << >>)
    \o <<Sp(4) \o <<"type", " ", type.name, " ", "=", " ">> \o type.definition,
         << >>>>

\* The lines generateTypeDeclarations pushes for one function; last: it is
\* the last of the interfaces.
FunctionMember(func, last) ==
    (IF func.comment # << >>
     THEN LET cleanComment == extractCleanComment(func.comment)
              originalLines == CommentLines(func.comment)
              kept == SelectSeq(originalLines, KeptTag)
          IN <<Sp(6) \o <<"/", "*", "*">>>>
             \o (IF Trim(cleanComment) # << >>
                 THEN <<Sp(7) \o <<"*", " ">> \o cleanComment>> ELSE << >>)
             \o [k \in 1 .. Len(kept) |-> Sp(7) \o <<"*", " ">> \o kept[k]]
             \o <<Sp(7) \o <<"*", "/">>>>
     ELSE << >>)
    \o <<Sp(6) \o Signature(func)>>
    \o (IF last THEN << >> ELSE << << >> >>)

\* Slip: the interface block is opened before the type members are added.
generateTypeDeclarations_typesInside(types, interfaces) ==
    << <<"declare", " ", "namespace", " ", "Lib", " ", "{">>,
       Sp(2) \o <<"namespace", " ", "Utils", " ", "{">>,
       Sp(4) \o <<"interface", " ", "Utils", " ", "{">> >>
    \o Concat([k \in 1 .. Len(types) |-> TypeMember(types[k])])
    \o Concat([k \in 1 .. Len(interfaces) |->
                  FunctionMember(interfaces[k], k = Len(interfaces))])
    \o << Sp(4) \o <<"}">>, Sp(2) \o <<"}">>, <<"}">>, << >>,
          <<"declare", " ", "var", " ", "Utils", ":", " ", "Lib", ".",
            "Utils", ".", "Utils">>,
          << >> >>

\* generateTypeDeclarations(types, interfaces): the lines of the output
generateTypeDeclarations(types, interfaces) ==
    << <<"declare", " ", "namespace", " ", "Lib", " ", "{">>,
       Sp(2) \o <<"namespace", " ", "Utils", " ", "{">> >>
    \o Concat([k \in 1 .. Len(types) |-> TypeMember(types[k])])
    \o << Sp(4) \o <<"interface", " ", "Utils", " ", "{">> >>
    \o Concat([k \in 1 .. Len(interfaces) |->
                  FunctionMember(interfaces[k], k = Len(interfaces))])
    \o << Sp(4) \o <<"}">>, Sp(2) \o <<"}">>, <<"}">>, << >>,
          <<"declare", " ", "var", " ", "Utils", ":", " ", "Lib", ".",
            "Utils", ".", "Utils">>,
          << >> >>

\* The words of the sample texts that contain a given text, whatever the
\* case of the letters: text.includes(part) and the `i` flag of a pattern
\* look inside the words.
SubWords ==
    {<<"Date", "Date">>, <<"Date", "date">>, <<"DateValue", "Date">>,
     <<"DateValue", "DateValue">>, <<"DateValue", "date">>,
     <<"DateValue", "value">>, <<"Number", "n">>, <<"Range", "n">>,
     <<"Returns", "n">>, <<"String", "n">>, <<"Value", "value">>,
     <<"addDays", "days">>, <<"and", "n">>, <<"argument", "n">>,
     <<"boolean", "n">>, <<"bundled", "n">>, <<"can", "n">>,
     <<"cannot", "n">>, <<"const", "n">>, <<"convenience", "n">>,
     <<"conversion", "n">>, <<"convert", "n">>, <<"converted", "n">>,
     <<"count", "n">>, <<"date", "Date">>, <<"date", "date">>,
     <<"days", "days">>, <<"defaultValue", "defaultValue">>,
     <<"defaultValue", "value">>, <<"development", "n">>,
     <<"everything", "n">>, <<"function", "n">>, <<"functions", "n">>,
     <<"index", "n">>, <<"instanceof", "n">>, <<"interface", "n">>,
     <<"into", "n">>, <<"invalid", "n">>, <<"isDate", "Date">>,
     <<"isDate", "date">>, <<"isNaN", "n">>, <<"n", "n">>,
     <<"namespace", "n">>, <<"negative", "n">>, <<"new", "n">>,
     <<"no", "n">>, <<"non", "n">>, <<"now", "n">>, <<"null", "n">>,
     <<"number", "n">>, <<"return", "n">>, <<"returns", "n">>,
     <<"string", "n">>, <<"throwing", "n">>, <<"toDate", "Date">>,
     <<"toDate", "date">>, <<"toDateStrict", "Date">>,
     <<"toDateStrict", "date">>, <<"undefined", "n">>, <<"unknown", "n">>,
     <<"using", "n">>, <<"value", "value">>}

\* word contains part
WordHas(word, part) == <<word, part>> \in SubWords

\* text.includes(part), for a part that is one word
IncludesWord(text, part) == \E i \in 1 .. Len(text) : WordHas(text[i], part)

\* text.replace(word, by): the first occurrence only
ReplaceFirstWord(text, word, by) ==
    LET hits == {i \in 1 .. Len(text) : text[i] = word} IN
    IF hits = {} THEN text ELSE [text EXCEPT ![Least(hits)] = by]

\* Slip: every type alias and function of the file is listed, exported or
\* not.
IndexLine_unfiltered(sourceFile) ==
    LET exports == [k \in 1 .. Len(getTypeAliases(sourceFile)) |->
                       <<Pool[getTypeAliases(sourceFile)[k]].name>>]
                   \o [k \in 1 .. Len(getFunctions(sourceFile)) |->
                       <<Pool[getFunctions(sourceFile)[k]].name>>]
    IN IF Len(exports) > 0
       THEN << <<"export", " ", "{", " ">> \o Join(exports, <<",", " ">>)
               \o <<" ", "}", " ", "from", " ", "'", ".", "/">>
               \o sourceFile.name \o <<".", "js", "'">> >>
       ELSE << >>

\* The export line generateIndexFile pushes for one source file.
IndexLine(sourceFile) ==
    LET exportedTypes == SelectSeq(getTypeAliases(sourceFile), isExported)
        exportedFunctions == SelectSeq(getFunctions(sourceFile), isExported)
        exports == [k \in 1 .. Len(exportedTypes) |->
                       <<Pool[exportedTypes[k]].name>>]
                   \o [k \in 1 .. Len(exportedFunctions) |->
                       <<Pool[exportedFunctions[k]].name>>]
    IN IF Len(exportedTypes) > 0 \/ Len(exportedFunctions) > 0
       THEN << <<"export", " ", "{", " ">> \o Join(exports, <<",", " ">>)
               \o <<" ", "}", " ", "from", " ", "'", ".",
                   "/">> \o sourceFile.name \o <<".", "js", "'">> >>
       ELSE << >>

\* generateIndexFile(sourceFiles): the lines of index.ts
generateIndexFile(sourceFiles) ==
    << <<"/", "*", "*">>,
       <<" ", "*", " ", "Google", " ", "Apps", " ", "Script", " ",
           "Utility", " ", "Library">>,
       <<" ", "*", " ">>,
       <<" ", "*", " ", "This", " ", "package", " ", "provides", " ",
           "utility", " ", "functions", " ", "for", " ", "Google", " ",
               "Apps", " ", "Script", " ", "development", ".">>,
       <<" ", "*", " ", "It", " ", "can", " ", "be", " ", "bundled", " ",
           "directly", " ", "into", " ", "your", " ", "GAS", " ",
               "project", " ", "using", " ", "a", " ", "build", " ",
                   "tool", ".">>,
       <<" ", "*", "/">>,
       << >> >>
    \o Concat([u \in 1 .. Len(sourceFiles) |-> IndexLine(sourceFiles[u])])
    \o << << >>,
          <<"/", "/", " ", "Re", "-", "export", " ", "everything", " ",
              "as", " ", "a", " ", "default", " ", "object", " ", "for",
                  " ", "convenience">>,
          <<"export", " ", "*", " ", "as", " ", "default", " ", "from",
              " ", "'", ".", "/", "index", ".", "js", "'">> >>

\* The end of the line that holds position i.
LineEnd(text, i) ==
    LET breaks == {j \in i .. Len(text) : text[j] = "\n"} IN
    IF breaks = {} THEN Len(text) ELSE Least(breaks) - 1

\* jsdocComment.match(new RegExp(`@param[^\\n]*${paramName}[^\\n]*-\\s*([^\\n]+)`, 'i')):
\* the hyphens a match can end its prefix with, for the tag at position a.
\* The name may sit inside any word between the tag and the hyphen; the
\* description starts at the first token after the hyphen that is no blank.
ParamHyphens(text, a, paramName) ==
    {h \in (a + 2) .. LineEnd(text, a) :
        /\ text[h] = "-"
        /\ \E b \in (a + 2) .. (h - 1) : WordHas(text[b], paramName)
        /\ \E c \in (h + 1) .. Len(text) : ~IsSpace(text[c])}

ParamTags(text, paramName) ==
    {a \in 1 .. Len(text) :
        /\ StartsAt(text, a, <<"@", "param">>)
        /\ ParamHyphens(text, a, paramName) # {}}

\* getParamDescription(jsdocComment, paramName)
getParamDescription(jsdocComment, paramName) ==
    IF jsdocComment = << >> THEN
        IF paramName = "value" THEN <<"The", " ", "value", " ", "to", " ",
            "convert", " ", "to", " ", "a", " ", "Date">>
        ELSE IF paramName = "defaultValue"
             THEN <<"The", " ", "default", " ", "value", " ", "to", " ",
                 "return", " ", "if", " ", "the", " ", "value", " ", "is",
                     " ", "invalid">>
        ELSE <<"The", " ", paramName, " ", "parameter">>
    ELSE IF ParamTags(jsdocComment, paramName) # {} THEN
        LET a == Least(ParamTags(jsdocComment, paramName))
            h == Greatest(ParamHyphens(jsdocComment, a, paramName))
            c == Least({j \in (h + 1) .. Len(jsdocComment) :
                           ~IsSpace(jsdocComment[j])})
        IN Trim(SubSeq(jsdocComment, c, LineEnd(jsdocComment, c)))
    ELSE IF paramName = "defaultValue"
         THEN <<"The", " ", "default", " ", "value", " ", "to", " ",
             "return", " ", "if", " ", "the", " ", "value", " ", "is",
                 " ", "invalid">>
    ELSE <<"The", " ", "value", " ", "to", " ", "convert", " ", "to", " ",
        "a", " ", "Date">>

\* [^\\n] in a pattern literal: any character but a backslash and the
\* letter n (so a line break is one of them).
WordsWithN ==
    {"Number", "Range", "Returns", "String", "and", "argument", "boolean",
     "bundled", "can", "cannot", "const", "convenience", "conversion",
     "convert", "converted", "count", "development", "everything",
     "function", "functions", "index", "instanceof", "interface", "into",
     "invalid", "isNaN", "n", "namespace", "negative", "new", "no", "non",
     "now", "null", "number", "return", "returns", "string", "throwing",
     "undefined", "unknown", "using"}
NotBackslashN(t) == t # "\\" /\ t \notin WordsWithN

\* jsdocComment.match(/@returns?[^\\n]*-\\s*([^\\n]+)/i): the positions of a
\* hyphen that a backslash follows, reached from a return tag over
\* characters that are neither backslash nor n, with such a character after
\* the backslash and the letters s behind it.
ReturnHyphens(text) ==
    {h \in 1 .. Len(text) :
        /\ text[h] = "-"
        /\ h + 2 <= Len(text)
        /\ text[h + 1] = "\\"
        /\ NotBackslashN(text[h + 2])
        /\ \E a \in 1 .. (h - 2) :
              /\ text[a] = "@"
              /\ text[a + 1] \in {"return", "returns"}
              /\ \A j \in (a + 2) .. (h - 1) : NotBackslashN(text[j])}

\* The captured group: the characters after the backslash up to the next
\* backslash or n (whole tokens here).
ReturnCapture(text, h) ==
    LET from == IF text[h + 2] \in {"s", "ss"} /\ h + 3 <= Len(text)
                   /\ NotBackslashN(text[h + 3])
                THEN h + 3 ELSE h + 2
        stops == {j \in from .. Len(text) : ~NotBackslashN(text[j])}
    IN SubSeq(text, from, IF stops = {} THEN Len(text) ELSE Least(stops) - 1)

\* getReturnDescription(jsdocComment, functionName)
getReturnDescription(jsdocComment, functionName) ==
    IF jsdocComment = << >> THEN
        IF functionName = "toDate"
        THEN <<"The", " ", "converted", " ", "Date", " ", "or", " ",
            "null", " ", "if", " ", "the", " ", "value", " ", "is", " ",
                "invalid">>
        ELSE IF functionName = "toDateStrict" THEN <<"The", " ",
            "converted", " ", "Date">>
        ELSE IF functionName = "isDate"
             THEN <<"True", " ", "if", " ", "the", " ", "value", " ",
                 "is", " ", "a", " ", "valid", " ", "Date", " ", "object">>
        ELSE <<"The", " ", "return", " ", "value">>
    ELSE IF ReturnHyphens(jsdocComment) # {}
         THEN Trim(ReturnCapture(jsdocComment,
                                 Least(ReturnHyphens(jsdocComment))))
    ELSE IF functionName = "toDate"
         THEN <<"The", " ", "converted", " ", "Date", " ", "or", " ",
             "null", " ", "if", " ", "the", " ", "value", " ", "is", " ",
                 "invalid">>
    ELSE IF functionName = "isDate"
         THEN <<"True", " ", "if", " ", "the", " ", "value", " ", "is",
             " ", "a", " ", "valid", " ", "Date", " ", "object">>
    ELSE <<"The", " ", "converted", " ", "Date">>

\* The block generateJSDocFromExports pushes for one type.
TypeBlock(type) ==
    << <<"/", "*", "*">> >>
    \o (IF type.comment # << >>
        THEN << <<" ", "*",
            " ">> \o extractCleanComment(type.comment) >> ELSE << >>)
    \o << <<" ", "*", " ", "@", "typedef", " ",
        "{">> \o type.definition \o <<"}", " ", "Utils", ".">>
          \o <<type.name>>,
          <<" ", "*", "/">>,
          << >> >>

\* ` * @param {${formattedParamType}} ${paramStr} - ${getParamDescription(...)}`
ParamLine(func, param) ==
    LET paramType == OrAny(param.type)
        formattedParamType ==
            IF IncludesWord(paramType, "DateValue")
            THEN <<"Utils", ".">> \o paramType ELSE paramType
        paramStr ==
            IF param.opt
            THEN IF param.name = "defaultValue"
                 THEN <<"[", param.name, "=", "null", "]">>
                 ELSE <<"[", param.name, "]">>
            ELSE <<param.name>>
    IN <<" ", "*", " ", "@", "param", " ",
        "{">> \o formattedParamType \o <<"}", " ">> \o paramStr
       \o <<" ", "-", " ">> \o getParamDescription(func.comment, param.name)

\* The block generateJSDocFromExports pushes for one function.
FunctionBlock(func) ==
    LET formattedReturnType ==
            IF IncludesWord(func.returnType, "Date")
            THEN ReplaceFirstWord(func.returnType, "undefined", "null")
            ELSE func.returnType
    IN << <<"/", "*", "*">> >>
       \o (IF func.comment # << >>
              /\ Trim(extractCleanComment(func.comment)) # << >>
           THEN << <<" ", "*", " ">> \o extractCleanComment(func.comment) >>
           ELSE << >>)
       \o << <<" ", "*", " ", "@", "function", " ", "Utils",
           ".">> \o <<func.name>> >>
       \o [k \in 1 .. Len(func.parameters) |->
              ParamLine(func, func.parameters[k])]
       \o << <<" ", "*", " ", "@", "returns", " ",
           "{">> \o formattedReturnType \o <<"}", " ">>
             \o getReturnDescription(func.comment, func.name) >>
       \o (IF func.name = "toDateStrict"
              /\ \E i \in 1 .. Len(func.comment) :
                    StartsAt(func.comment, i, <<"@", "throws">>)
           THEN << <<" ", "*", " ", "@", "throws", " ", "{", "Error", "}",
               " ", "If", " ", "the", " ", "value", " ", "cannot", " ",
                   "be", " ", "converted", " ", "to", " ", "a", " ",
                       "valid", " ", "Date">> >>
           ELSE << >>)
       \o << <<" ", "*", "/">>, << >> >>

\* Slip: a stub is written behind the block of every function.
generateJSDocFromExports_withStubs(allTypes, allFunctions) ==
    << <<"/", "*", "*">>, <<" ", "*", " ", "@", "namespace", " ",
        "Utils">>, <<" ", "*", "/">>, << >> >>
    \o Concat([k \in 1 .. Len(allTypes) |-> TypeBlock(allTypes[k])])
    \o Concat([k \in 1 .. Len(allFunctions) |->
                  FunctionBlock(allFunctions[k])
                  \o << <<"function", " ", allFunctions[k].name, "(", ")",
                          " ", "{", "}">> >>])
    \o (IF Len(allFunctions) > 0
        THEN << <<"/", "*", "*">>, <<" ", "*", " ", "@", "typedef", " ",
            "{", "Object", "}", " ", "Utils">> >>
             \o [k \in 1 .. Len(allFunctions) |->
                    <<" ", "*", " ", "@", "property", " ", "{",
                        "function", "}", " ">> \o <<allFunctions[k].name>>]
             \o << <<" ", "*", "/">>, << >> >>
        ELSE << >>)
    \o << <<"/", "*", "*">>, <<" ", "*", " ", "@", "type", " ", "{",
        "Utils", "}">>, <<" ", "*", "/">>,
          <<"var", " ", "Utils", " ", "=", " ", "Utils", " ", "|", "|",
              " ", "{", "}">>, << >> >>

\* generateJSDocFromExports(allTypes, allFunctions): the lines of the output
generateJSDocFromExports(allTypes, allFunctions) ==
    << <<"/", "*", "*">>, <<" ", "*", " ", "@", "namespace", " ",
        "Utils">>, <<" ", "*", "/">>, << >> >>
    \o Concat([k \in 1 .. Len(allTypes) |-> TypeBlock(allTypes[k])])
    \o Concat([k \in 1 .. Len(allFunctions) |-> FunctionBlock(allFunctions[k])])
    \o (IF Len(allFunctions) > 0
        THEN << <<"/", "*", "*">>, <<" ", "*", " ", "@", "typedef", " ",
            "{", "Object", "}", " ", "Utils">> >>
             \o [k \in 1 .. Len(allFunctions) |->
                    <<" ", "*", " ", "@", "property", " ", "{",
                        "function", "}", " ">> \o <<allFunctions[k].name>>]
             \o << <<" ", "*", "/">>, << >> >>
        ELSE << >>)
    \o << <<"/", "*", "*">>, <<" ", "*", " ", "@", "type", " ", "{",
        "Utils", "}">>, <<" ", "*", "/">>,
          <<"var", " ", "Utils", " ", "=", " ", "Utils", " ", "|", "|",
              " ", "{", "}">>, << >> >>

(***************************************************************************)
(*        Type erasure: convertTSToJS of the three Apps Script builds      *)
(***************************************************************************)

\* The characters that are tokens of their own in a text; every other token
\* is a run of letters.
Punctuation ==
    {"\n", " ", "\t", "!", "\"", "#", "$", "%", "&", "'", "(", ")", "*", "+",
     ",", "-", ".", "/", ":", ";", "<", "=", ">", "?", "@", "[", "\\", "]",
     "^", "_", "{", "|", "}", "~",
     "0", "1", "2", "3", "4", "5", "6", "7", "8", "9"}

\* [A-Za-z]+
IsLetters(t) == t \notin Punctuation

\* \w: a pattern (\w+) that is kept as $1 is matched on its last token, the
\* tokens of the run before it are kept either way.
IsWordChar(t) ==
    \/ IsLetters(t)
    \/ t \in {"_", "0", "1", "2", "3", "4", "5", "6", "7", "8", "9"}

\* [A-Za-z[\]|<>\s{},'"]
InTypeClass(t) ==
    \/ IsLetters(t)
    \/ IsSpace(t)
    \/ t \in {"[", "]", "|", "<", ">", "{", "}", ",", "'", "\""}

\* [A-Za-z[\]|<>\s]
InAssertionClass(t) ==
    \/ IsLetters(t)
    \/ IsSpace(t)
    \/ t \in {"[", "]", "|", "<", ">"}

\* The last position of the longest run of class tokens that starts at i
\* (i - 1: there is none).
RunEnd(text, i, InClass(_)) ==
    LET stops == {j \in i .. Len(text) : ~InClass(text[j])} IN
    IF stops = {} THEN Len(text) ELSE Least(stops) - 1

\* ^ and $ under the m flag
AtLineStart(text, i) == i = 1 \/ text[i - 1] = "\n"
AtLineEnd(text, i) == i = Len(text) + 1 \/ text[i] = "\n"

\* sourceFile.getFullText(): the declarations, a blank line between two
\* of them
getFullText(sourceFile) ==
    IF sourceFile.decls = << >> THEN << >>
    ELSE Join([j \in 1 .. Len(sourceFile.decls) |->
                  Pool[sourceFile.decls[j]].text], <<"\n", "\n">>)
         \o <<"\n">>

\* text.replace(/pattern/g, by): the matches are taken left to right, the
\* search going on behind each match; matches[i] is the match that starts
\* at i, its last position and what it is replaced by.
RECURSIVE ReplaceFrom(_, _, _)
ReplaceFrom(text, from, matches) ==
    LET next == {i \in DOMAIN matches : i >= from} IN
    IF next = {} THEN SubSeq(text, from, Len(text))
    ELSE LET i == Least(next) IN
         SubSeq(text, from, i - 1) \o matches[i].by
         \o ReplaceFrom(text, matches[i].upto + 1, matches)

ReplaceAll(text, matches) == ReplaceFrom(text, 1, matches)

\* content.replace(/^export\s+type\s+[^\n]+$/gm, '') and
\* content.replace(/^import\s+type\s+[^\n]+$/gm, '')
RemoveTypeLines(text, keyword) ==
    LET kind(i) == RunEnd(text, i + 1, IsSpace) + 1
        blanks(i) == {k \in (kind(i) + 1) .. RunEnd(text, kind(i) + 1, IsSpace) :
                         k + 1 <= Len(text) /\ text[k + 1] # "\n"}
        starts == {i \in 1 .. Len(text) :
                      /\ text[i] = keyword
                      /\ AtLineStart(text, i)
                      /\ kind(i) > i + 1
                      /\ kind(i) <= Len(text)
                      /\ text[kind(i)] = "type"
                      /\ blanks(i) # {}}
    IN ReplaceAll(text,
                  [i \in starts |->
                      [upto |-> LineEnd(text, Greatest(blanks(i)) + 1),
                       by |-> << >>]])

\* content.replace(/^export\s+interface\s+[^}]+}\s*$/gm, '')
RemoveInterfaces(text) ==
    LET kind(i) == RunEnd(text, i + 1, IsSpace) + 1
        closing(i) == {b \in (kind(i) + 1) .. Len(text) : text[b] = "}"}
        ends(i) == LET b == Least(closing(i)) IN
                   {r \in (b + 1) .. (RunEnd(text, b + 1, IsSpace) + 1) :
                       AtLineEnd(text, r)}
        starts == {i \in 1 .. Len(text) :
                      /\ text[i] = "export"
                      /\ AtLineStart(text, i)
                      /\ kind(i) > i + 1
                      /\ kind(i) < Len(text)
                      /\ text[kind(i)] = "interface"
                      /\ IsSpace(text[kind(i) + 1])
                      /\ closing(i) # {}
                      /\ Least(closing(i)) >= kind(i) + 3
                      /\ ends(i) # {}}
    IN ReplaceAll(text,
                  [i \in starts |->
                      [upto |-> Greatest(ends(i)) - 1, by |-> << >>]])

\* content.replace(/^export\s+/gm, '')
RemoveExportKeywords(text) ==
    LET starts == {i \in 1 .. (Len(text) - 1) :
                      /\ text[i] = "export"
                      /\ AtLineStart(text, i)
                      /\ IsSpace(text[i + 1])}
    IN ReplaceAll(text,
                  [i \in starts |->
                      [upto |-> RunEnd(text, i + 1, IsSpace), by |-> << >>]])

\* content.replace(/(\w+)\?:\s*[A-Za-z[\]|<>\s{},'"]+/g, '$1') with mark
\* <<"?", ":">> and
\* content.replace(/(\w+):\s*[A-Za-z[\]|<>\s{},'"]+/g, '$1') with mark
\* <<":">>: the blanks are of the class, so the match is the run of class
\* tokens behind the colon.
RemoveParameterTypes(text, mark) ==
    LET starts == {i \in 1 .. Len(text) :
                      /\ IsWordChar(text[i])
                      /\ StartsAt(text, i + 1, mark)
                      /\ i + Len(mark) + 1 <= Len(text)
                      /\ InTypeClass(text[i + Len(mark) + 1])}
    IN ReplaceAll(text,
                  [i \in starts |->
                      [upto |-> RunEnd(text, i + Len(mark) + 1, InTypeClass),
                       by |-> <<text[i]>>]])

\* content.replace(/\):\s*[A-Za-z[\]|<>\s{},'"]+\s+{/g, ') {'): the brace
\* is of the class too, the match ends with the last brace of the run that
\* has a blank before it and a token of the class before that.
RemoveReturnTypes(text) ==
    LET braces(i) == {b \in (i + 4) .. RunEnd(text, i + 2, InTypeClass) :
                         text[b] = "{" /\ IsSpace(text[b - 1])}
        starts == {i \in 1 .. Len(text) :
                      /\ StartsAt(text, i, <<")", ":">>)
                      /\ braces(i) # {}}
    IN ReplaceAll(text,
                  [i \in starts |->
                      [upto |-> Greatest(braces(i)),
                       by |-> <<")", " ", "{">>]])

\* content.replace(/\s+as\s+[A-Za-z[\]|<>\s]+/g, '')
RemoveAssertions(text) ==
    LET word(i) == RunEnd(text, i, IsSpace) + 1
        starts == {i \in 1 .. Len(text) :
                      /\ IsSpace(text[i])
                      /\ word(i) + 2 <= Len(text)
                      /\ text[word(i)] = "as"
                      /\ IsSpace(text[word(i) + 1])
                      /\ InAssertionClass(text[word(i) + 2])}
    IN ReplaceAll(text,
                  [i \in starts |->
                      [upto |-> RunEnd(text, word(i) + 1, InAssertionClass),
                       by |-> << >>]])

\* (?=\s*[follow]) at position p
Ahead(text, p, follow) ==
    LET n == RunEnd(text, p, IsSpace) + 1 IN
    \/ n <= Len(text) /\ text[n] \in follow
    \/ "\n" \in follow /\ \E k \in p .. (n - 1) : text[k] = "\n"

\* content.replace(/:\s*[class]+(?=\s*[follow])/g, ''): the longest run of
\* class tokens behind the colon that has one of follow ahead; braces: the
\* class is the one with the braces, the comma and the quotes.
RemoveAnnotations(text, braces, follow) ==
    LET InClass(t) == IF braces THEN InTypeClass(t) ELSE InAssertionClass(t)
        ends(i) == {p \in (i + 2) .. (RunEnd(text, i + 1, InClass) + 1) :
                       Ahead(text, p, follow)}
        starts == {i \in 1 .. Len(text) : text[i] = ":" /\ ends(i) # {}}
    IN ReplaceAll(text,
                  [i \in starts |->
                      [upto |-> Greatest(ends(i)) - 1, by |-> << >>]])

\* content.replace(/^\s*\n/gm, '\n')
RemoveEmptyLines(text) ==
    LET breaks(i) == {k \in i .. RunEnd(text, i, IsSpace) : text[k] = "\n"}
        starts == {i \in 1 .. Len(text) :
                      AtLineStart(text, i) /\ breaks(i) # {}}
    IN ReplaceAll(text,
                  [i \in starts |->
                      [upto |-> Greatest(breaks(i)), by |-> <<"\n">>]])

\* convertTSToJS of the first build: patterns on the full text
eraseAnnotations(content) ==
    Trim(RemoveEmptyLines(
         RemoveTypeLines(
         RemoveInterfaces(
         RemoveTypeLines(
         RemoveAssertions(
         RemoveAnnotations(content, TRUE,
                           {"=", ",", ")", "{", "\n"})),
         "export")), "import")))

\* convertTSToJS of the second build: the export keywords go, the
\* annotations are removed together with the name they follow
stripDeclarations(content) ==
    Trim(RemoveEmptyLines(
         RemoveAssertions(
         RemoveReturnTypes(
         RemoveParameterTypes(
         RemoveParameterTypes(
         RemoveExportKeywords(
         RemoveTypeLines(
         RemoveInterfaces(
         RemoveTypeLines(content, "export")), "import")),
         <<"?", ":">>), <<":">>)))))

\* comment.replace(/export /g, '')
RemoveExportWords(text) ==
    LET starts == {i \in 1 .. (Len(text) - 1) :
                      text[i] = "export" /\ text[i + 1] = " "}
    IN ReplaceAll(text, [i \in starts |-> [upto |-> i + 1, by |-> << >>]])

\* body.replace(/as\s+[A-Za-z\[\]|<>\s]+/g, ''): no word of the texts ends
\* with "as" but the word itself
RemoveBodyAssertions(text) ==
    LET starts == {i \in 1 .. (Len(text) - 1) :
                      text[i] = "as" /\ IsSpace(text[i + 1])}
    IN ReplaceAll(text,
                  [i \in starts |->
                      [upto |-> RunEnd(text, i + 1, InAssertionClass),
                       by |-> << >>]])

\* cleanBody: the two patterns on the body text, then every line trimmed
\* and indented by two blanks
CleanBody(body) ==
    LET bodyLines ==
            SplitLines(RemoveBodyAssertions(
                       RemoveAnnotations(body, FALSE,
                                         {"=", ",", ")", "}"})))
    IN Join([k \in 1 .. Len(bodyLines) |->
                IF Trim(bodyLines[k]) = << >> THEN << >>
                ELSE Sp(2) \o Trim(bodyLines[k])], <<"\n">>)

\* The lines the third build pushes for an exported type alias.
TypedefLines(i) ==
    (IF extractJSDocComment(i) # << >>
     THEN << <<"/", "/", " ">> \o extractCleanComment(extractJSDocComment(i)) >>
     ELSE << >>)
    \o << <<"/", "/", " ", "@", "typedef", " ", "{">> \o OrAny(Pool[i].def)
              \o <<"}", " ", Pool[i].name>>,
          << >> >>

\* The lines the third build pushes for an exported function.
FunctionLines(i) ==
    (IF extractJSDocComment(i) # << >>
     THEN <<RemoveExportWords(extractJSDocComment(i))>> ELSE << >>)
    \o << <<"function", " ", Pool[i].name, "(">>
              \o Join([k \in 1 .. Len(Pool[i].params) |->
                          <<Pool[i].params[k].name>>], <<",", " ">>)
              \o <<")", " ", "{">>,
          CleanBody(Pool[i].body),
          <<"}">>,
          << >> >>

\* convertTSToJS of the third build: lines.join('\n')
emitFunctions(sourceFile) ==
    LET typeAliases == SelectSeq(getTypeAliases(sourceFile), isExported)
        functions == SelectSeq(getFunctions(sourceFile), isExported)
    IN Join(<< <<"/", "*", "*">>,
               <<" ", "*", " ", "Google", " ", "Apps", " ", "Script", " ",
                 "utility", " ", "functions">>,
               <<" ", "*", " ", "Generated", " ", "from", " ", "TypeScript",
                 " ", "source">>,
               <<" ", "*", "/">>,
               << >> >>
            \o Concat([k \in 1 .. Len(typeAliases) |->
                          TypedefLines(typeAliases[k])])
            \o Concat([k \in 1 .. Len(functions) |->
                          FunctionLines(functions[k])]),
            <<"\n">>)

\* convertTSToJS(sourceFile) of build v
convertTSToJS(v, sourceFile) ==
    CASE v = "gas1" -> eraseAnnotations(getFullText(sourceFile))
      [] v = "gas2" -> stripDeclarations(getFullText(sourceFile))
      [] v = "gas3" -> emitFunctions(sourceFile)

(***************************************************************************)
(*                PART V  -  The bundler of user projects                  *)
(***************************************************************************)

\* The user files the bundler builds at a time.
MaxUserFiles == 2

\* The package the user files import the utilities from.
UtilityPackage == <<"@your-org", "gas-utils">>

\* Module specifiers of import declarations, split at the slashes.
Specifiers == {UtilityPackage, <<"..", "vendor", "gas-utils">>, <<"lodash">>}

\* imp.getNamedImports() of an import declaration: the imported names.
NamedClauses == {<<"toDate">>, <<"toDateStrict">>, <<"isDate">>,
                 <<"DateValue">>, << >>}

\* An import declaration: import { names } from 'module' or
\* import * as X from 'module'.
ImportDeclarations ==
    {[moduleSpecifier |-> m, namedImports |-> n, namespaceImport |-> FALSE] :
        m \in Specifiers, n \in NamedClauses}
    \cup {[moduleSpecifier |-> m, namedImports |-> << >>,
           namespaceImport |-> TRUE] : m \in Specifiers}

\* A user file: file.getImportDeclarations(), none or one.
UserFiles ==
    {[imports |-> << >>]} \cup {[imports |-> <<d>>] : d \in ImportDeclarations}

\* userProject.addSourceFilesAtPaths(`${srcDir}/**/*.ts`), not empty
UserFileSets ==
    {S \in SUBSET UserFiles : Cardinality(S) \in 1 .. MaxUserFiles}

\* utilsProject.addSourceFilesAtPaths(`${utilsSrcDir}/**/*.ts`): the library
\* of the repository, app/code.ts and app/type-check.ts.
UtilitySources ==
    <<[name |-> UnitNames[1], decls |-> <<1, 2, 3>>],
      [name |-> UnitNames[2], decls |-> <<4>>]>>

\* moduleSpecifier === '@your-org/gas-utils' ||
\* moduleSpecifier.endsWith('/gas-utils')
IsUtilityModule(moduleSpecifier) ==
    \/ moduleSpecifier = UtilityPackage
    \/ Len(moduleSpecifier) >= 2
         /\ moduleSpecifier[Len(moduleSpecifier)] = "gas-utils"

\* Slip: the namespace import is not looked at.
findUsedUtilityExports_namedOnly(files) ==
    UNION {UNION {IF IsUtilityModule(file.imports[k].moduleSpecifier)
                  THEN {file.imports[k].namedImports[n] :
                           n \in 1 .. Len(file.imports[k].namedImports)}
                  ELSE {} :
                  k \in 1 .. Len(file.imports)} : file \in files}

\* findUsedUtilityExports(userFiles): the Set of the imported names, "*" for
\* a namespace import
findUsedUtilityExports(files) ==
    UNION {UNION {IF IsUtilityModule(file.imports[k].moduleSpecifier)
                  THEN {file.imports[k].namedImports[n] :
                           n \in 1 .. Len(file.imports[k].namedImports)}
                       \cup (IF file.imports[k].namespaceImport
                             THEN {"*"} ELSE {})
                  ELSE {} :
                  k \in 1 .. Len(file.imports)} : file \in files}

\* [A-Za-z[\]|<>\s?,'"]
InBundleClass(t) ==
    \/ IsLetters(t)
    \/ IsSpace(t)
    \/ t \in {"[", "]", "|", "<", ">", "?", ",", "'", "\""}

\* content.replace(/(\w+)\?(?=\s*[,)}{])/g, '$1')
RemoveOptionalMarks(text) ==
    LET starts == {i \in 2 .. Len(text) :
                      /\ text[i] = "?"
                      /\ IsWordChar(text[i - 1])
                      /\ Ahead(text, i + 1, {",", ")", "}", "{"})}
    IN ReplaceAll(text, [i \in starts |-> [upto |-> i, by |-> << >>]])

\* content.replace(/:\s*[A-Za-z[\]|<>\s?,'"]+(?=\s*[follow])/g, '')
RemoveBundleAnnotations(text, follow) ==
    LET ends(i) == {p \in (i + 2) .. (RunEnd(text, i + 1, InBundleClass) + 1) :
                       Ahead(text, p, follow)}
        starts == {i \in 1 .. Len(text) : text[i] = ":" /\ ends(i) # {}}
    IN ReplaceAll(text,
                  [i \in starts |->
                      [upto |-> Greatest(ends(i)) - 1, by |-> << >>]])

\* convertTSToJS(content) of the bundler
bundlerConvertTSToJS(content) ==
    Trim(RemoveEmptyLines(
         RemoveTypeLines(
         RemoveInterfaces(
         RemoveTypeLines(
         RemoveAssertions(
         RemoveBundleAnnotations(
         RemoveBundleAnnotations(
         RemoveOptionalMarks(content),
         {"=", ",", ")"}), {"{"})),
         "export")), "import")))

\* func.getText(): the declaration without the comment in front of it
getText(i) ==
    IF Pool[i].doc = << >> THEN Pool[i].text
    ELSE SubSeq(Pool[i].text, Len(Pool[i].doc) + 2, Len(Pool[i].text))

\* What createTreeShakenUtilsBundle pushes for one source file.
BundledFile(sourceFile, usedExports) ==
    LET functions == SelectSeq(getFunctions(sourceFile), isExported)
        neededFunctions ==
            IF "*" \in usedExports THEN functions
            ELSE SelectSeq(functions,
                           LAMBDA i : Pool[i].name \in usedExports)
    IN IF Len(neededFunctions) > 0
       THEN << <<"/", "/", " ", "From", " ">> \o sourceFile.name
                  \o <<".", "ts">> >>
            \o Concat([k \in 1 .. Len(neededFunctions) |->
                          << bundlerConvertTSToJS(getText(neededFunctions[k])),
                             << >> >>])
       ELSE << >>

\* createTreeShakenUtilsBundle(usedExports): bundleContent, joined by line
\* breaks
createTreeShakenUtilsBundle(usedExports) ==
    Join(<< <<"/", "/", " ", "Tree", "-", "shaken", " ", "Google", " ",
              "Apps", " ", "Script", " ", "utilities">>,
            <<"/", "/", " ", "Generated", " ", "by", " ", "@", "your", "-",
              "org", "/", "gas", "-", "utils">>,
            << >> >>
         \o Concat([u \in 1 .. Len(project) |->
                       BundledFile(project[u], usedExports)]),
         <<"\n">>)

\* No file lib/gas-utils.js
NotWritten == <<"ENOENT">>

\* Nothing has been extracted or rendered.
IdleRender ==
    /\ project = << >>
    /\ renderer = "none"
    /\ output = << >>
    /\ runs = 0
    /\ userFiles = {}


(***************************************************************************)
(*                    The state machine of a build                         *)
(***************************************************************************)

NoEnv  == [sources |-> {}, failAt |-> 0, imports |-> FALSE, prog |-> << >>]
NoPrev == [ok |-> FALSE, left |-> FALSE]

\* The file system before the first invocation: the inputs are present, the
\* output directories are empty or hold files of earlier builds.
CleanFS(v) ==
    [p \in Paths(v) |->
        IF p \in AllInputs \cup {Sibling(v)} THEN Given ELSE Absent]
StaleFS(v) ==
    [p \in Paths(v) |->
        IF p \in AllInputs \cup {Sibling(v)} THEN Given
        ELSE IF \E i \in SourceIds : p = SourcePath(v, i) THEN Absent
        ELSE Stale]

IdleDate ==
    /\ argValue = Undefined
    /\ argDefault = Undefined
    /\ callee = "none"
    /\ outcome = NoOutcome

IdleBuild ==
    /\ pc = 0
    /\ status = "idle"
    /\ exitCode = -1
    /\ stderr = FALSE
    /\ stdout = FALSE
    /\ env = NoEnv
    /\ failedAt = 0
    /\ ranAfter = FALSE
    /\ written = {}
    /\ prev = NoPrev
    /\ inflight = {}

\* The program of the running invocation and its current statement.
Program == env.prog
Cur == Program[pc]
Running(op) == status = "running" /\ pc \in 1 .. Len(Program) /\ Cur.op = op

\* The statements whose filesystem call can fail although its inputs are
\* there (permissions, a full disk, a path that is a file).
Faultable(st) == st.op \in {"rm", "mkdir", "write", "copy"}

\* Slip: a file the statement needs is never looked for.
Fails_injectedOnly(st) == env.failAt = pc

\* The current statement st throws: its call fails, or the file it needs is
\* not there.
Fails(st) ==
    \/ env.failAt = pc
    \/ st.from # NoPath /\ fs[st.from] = Absent

\* Slip: every statement sits in a try block.
Tolerated_all(st) == TRUE

\* try { ... } catch (_error) { /* skip */ } around the statement.
Tolerated(st) == st.try

\* The first statement after the try block that holds statement k.
AfterTry(k) ==
    CHOOSE j \in (k + 1) .. (Len(Program) + 1) :
        /\ j <= Len(Program) => ~Program[j].try
        /\ \A i \in (k + 1) .. (j - 1) : Program[i].try

\* The statements that call the promise API of node:fs (rm, mkdir,
\* writeFile, readFile); the others are synchronous calls.
Async(st) ==
    \/ st.op \in {"rm", "mkdir", "write"}
    \/ st.op = "read" /\ st.from = CliBundler

\* Slip: the promise of the call is dropped, the script goes on at once.
Awaited_never(st) == FALSE

\* `await` in front of the call: the script is suspended until the promise
\* of the call has settled.
Awaited(st) == TRUE

\* The call of the current statement has been made and has not settled.
Issued == pc \in inflight

\* The current statement makes its filesystem call.
Issue ==
    /\ inflight' = inflight \cup {pc}
    /\ pc' = IF Awaited(Cur) THEN pc ELSE pc + 1
    /\ UNCHANGED <<status, fs, written, failedAt, ranAfter, exitCode,
                   stderr, stdout>>

\* The current statement completes; the file system becomes newfs.
Proceed(newfs, newwritten) ==
    /\ pc' = pc + 1
    /\ fs' = newfs
    /\ written' = newwritten
    /\ ranAfter' = (ranAfter \/ failedAt # 0)
    /\ inflight' = inflight \ {pc}
    /\ UNCHANGED <<status, failedAt, exitCode, stderr, stdout>>

\* The current statement throws: caught by the enclosing try, or the async
\* function ends with a rejected promise.
Raise ==
    /\ failedAt' = pc
    /\ ranAfter' = (ranAfter \/ failedAt # 0)
    /\ IF Tolerated(Cur)
       THEN pc' = AfterTry(pc) /\ status' = status
       ELSE pc' = pc /\ status' = "rejected"
    /\ inflight' = inflight \ {pc}
    /\ UNCHANGED <<fs, written, exitCode, stderr, stdout>>

Frame == UNCHANGED <<variant, env, prev, argValue, argDefault,
                     callee, outcome, project, renderer, output, runs,
                     userFiles>>

\* What can go wrong in one invocation: nothing, an input file that is not
\* there, or the filesystem call of statement k failing.  A script stops at
\* its first uncaught error, so one fault per invocation covers its runs.
Faults(v, prog) ==
    {[missing |-> {}, failAt |-> 0]}
    \cup {[missing |-> {p}, failAt |-> 0] : p \in Inputs(v)}
    \cup {[missing |-> {}, failAt |-> k] :
             k \in {j \in 1 .. Len(prog) : Faultable(prog[j])}}

\* `node scripts/build-*.js`: a new process runs the script; the sources and
\* inputs are what the developer left on disk.
StartBuild ==
    /\ status = "idle"
    /\ \E S \in SUBSET SourceIds,
          imp \in (IF variant = "cli" THEN BOOLEAN ELSE {FALSE}) :
       LET prog == Steps(variant, SortedSeq(S), imp)
           srcs == {SourcePath(variant, i) : i \in SourceIds}
           here == {SourcePath(variant, i) : i \in S}
           arts == {prog[j].path :
                      j \in {i \in 1 .. Len(prog) :
                               prog[i].op \in {"write", "copy"}}}
       IN
       \E f \in Faults(variant, prog) :
          /\ env' = [sources |-> S, failAt |-> f.failAt, imports |-> imp,
                     prog |-> prog]
          /\ fs' = [p \in DOMAIN fs |->
                      IF p \in here THEN Content("src", {p}, 1)
                      ELSE IF p \in srcs THEN Absent
                      ELSE IF p \in f.missing THEN Absent
                      ELSE IF p \in Inputs(variant) THEN Given
                      ELSE Aged(fs[p])]
          /\ prev' = [ok |-> prev.ok,
                      left |-> \E p \in DOMAIN fs \ arts :
                                  /\ Under(OutputDir(variant), p)
                                  /\ fs[p].kind # "absent"
                                  /\ fs[p].age = 0]
    /\ pc' = 1
    /\ status' = "running"
    /\ exitCode' = -1
    /\ stderr' = FALSE
    /\ stdout' = FALSE
    /\ failedAt' = 0
    /\ ranAfter' = FALSE
    /\ written' = {}
    /\ inflight' = {}
    /\ UNCHANGED <<variant, argValue, argDefault, callee, outcome>>
    /\ UNCHANGED renderVars

\* new Project({ tsConfigFilePath }) ; project.getSourceFiles(glob)
LoadProject ==
    /\ Running("load")
    /\ IF Fails(Cur) THEN Raise ELSE Proceed(fs, written)
    /\ Frame

\* if (userFiles.length === 0) { console.error(...); process.exit(1) }
CheckSources ==
    /\ Running("check")
    /\ IF env.sources = {}
       THEN /\ stderr' = TRUE
            /\ exitCode' = 1
            /\ status' = "aborted"
            /\ UNCHANGED <<pc, fs, written, failedAt, ranAfter, stdout,
                           inflight>>
       ELSE Proceed(fs, written)
    /\ Frame

\* await rm(outputDir, { recursive: true, force: true })
RemoveDir ==
    /\ Running("rm")
    /\ IF ~Issued THEN Issue
       ELSE IF Fails(Cur) THEN Raise
       ELSE Proceed([p \in DOMAIN fs |->
                        IF RmTargets(Cur.path, p) THEN Absent ELSE fs[p]],
                    written)
    /\ Frame

\* await mkdir(dir, { recursive: true })
MakeDir ==
    /\ Running("mkdir")
    /\ IF ~Issued THEN Issue
       ELSE IF Fails(Cur) THEN Raise ELSE Proceed(fs, written)
    /\ Frame

\* Slip: a file that this invocation has written already is left as it is.
WriteFile_keepFirst ==
    /\ Running("write")
    /\ IF ~Issued THEN Issue
       ELSE IF Fails(Cur) THEN Raise
       ELSE IF Cur.path \in written THEN Proceed(fs, written)
       ELSE Proceed([fs EXCEPT ![Cur.path] = Content(Cur.kind, Cur.of, 0)],
                    written \cup {Cur.path})
    /\ Frame

\* await writeFile(path, content)
WriteFile ==
    /\ Running("write")
    /\ IF ~Issued THEN Issue
       ELSE IF Fails(Cur) THEN Raise
       ELSE Proceed([fs EXCEPT ![Cur.path] = Content(Cur.kind, Cur.of, 0)],
                    written \cup {Cur.path})
    /\ Frame

\* readFileSync('./package.json') / readFile(cli-bundler.js) /
\* addSourceFileAtPath('./app/appsscript.json')
ReadFile ==
    /\ Running("read")
    /\ IF Async(Cur) /\ ~Issued THEN Issue
       ELSE IF Fails(Cur) THEN Raise ELSE Proceed(fs, written)
    /\ Frame

\* copyFileSync('./docs/<template>', join(outputDir, 'README.md'))
CopyFile ==
    /\ Running("copy")
    /\ IF Fails(Cur) THEN Raise
       ELSE Proceed([fs EXCEPT ![Cur.path] = Content("copy", {}, 0)],
                    written \cup {Cur.path})
    /\ Frame

\* console.log(`Generated ... in ${outputDir}`): the last statement; the
\* async function returns and its promise is fulfilled.
LogSuccess ==
    /\ Running("log")
    /\ stdout' = TRUE
    /\ status' = "resolved"
    /\ pc' = pc + 1
    /\ ranAfter' = (ranAfter \/ failedAt # 0)
    /\ UNCHANGED <<fs, written, failedAt, exitCode, stderr, inflight>>
    /\ Frame

\* The exit code after the rejection handler has run.
ExitOnError(v) == IF v = "cli" THEN 1 ELSE 0

\* build().catch(console.error)  /  .catch((error) => { console.error(...);
\* process.exit(1) }): the handler prints the error; the process then ends.
HandleRejection ==
    /\ status = "rejected"
    /\ exitCode = -1
    /\ stderr' = TRUE
    /\ exitCode' = ExitOnError(variant)
    /\ UNCHANGED <<pc, status, fs, written, failedAt, ranAfter, stdout,
                   inflight>>
    /\ Frame

\* Nothing left to run: the process ends with exit code 0.
ExitNormally ==
    /\ status = "resolved"
    /\ exitCode = -1
    /\ exitCode' = 0
    /\ UNCHANGED <<pc, status, fs, written, failedAt, ranAfter, stdout,
                   stderr, inflight>>
    /\ Frame

\* The process is gone.  What it leaves is the file system and its exit
\* status; the developer's tree (sources, inputs) is whatever the next
\* invocation finds.
Reap ==
    /\ exitCode >= 0
    /\ status' = "idle"
    /\ pc' = 0
    /\ exitCode' = -1
    /\ stderr' = FALSE
    /\ stdout' = FALSE
    /\ env' = NoEnv
    /\ failedAt' = 0
    /\ ranAfter' = FALSE
    /\ written' = {}
    /\ prev' = [ok |-> status = "resolved", left |-> FALSE]
    /\ inflight' = {}
    /\ fs' = [p \in DOMAIN fs |->
                IF \E i \in SourceIds : p = SourcePath(variant, i) THEN Absent
                ELSE IF p \in AllInputs THEN Given
                ELSE fs[p]]
    /\ UNCHANGED <<variant, argValue, argDefault, callee, outcome>>
    /\ UNCHANGED renderVars

InitBuild ==
    /\ IdleDate
    /\ IdleBuild
    /\ IdleRender
    /\ variant \in Variants
    /\ fs \in {CleanFS(variant), StaleFS(variant)}

NextBuild ==
    \/ StartBuild
    \/ LoadProject
    \/ CheckSources
    \/ RemoveDir
    \/ MakeDir
    \/ WriteFile
    \/ ReadFile
    \/ CopyFile
    \/ LogSuccess
    \/ HandleRejection
    \/ ExitNormally
    \/ Reap

SpecBuild == InitBuild /\ [][NextBuild]_vars

(***************************************************************************)
(*                 The state machine of the library calls                  *)
(***************************************************************************)

InitDate ==
    /\ argValue \in Values
    /\ argDefault \in Defaults
    /\ callee = "none"
    /\ outcome = NoOutcome
    /\ IdleBuild
    /\ IdleRender
    /\ variant = "gas1"
    /\ fs = CleanFS(variant)

CallToDate ==
    /\ callee = "none"
    /\ callee' = "toDate"
    /\ outcome' = toDate(argValue, argDefault)
    /\ UNCHANGED <<argValue, argDefault>>
    /\ UNCHANGED buildVars
    /\ UNCHANGED renderVars

CallToDateStrict ==
    /\ callee = "none"
    /\ callee' = "toDateStrict"
    /\ outcome' = toDateStrict(argValue, argDefault)
    /\ UNCHANGED <<argValue, argDefault>>
    /\ UNCHANGED buildVars
    /\ UNCHANGED renderVars

CallIsDate ==
    /\ callee = "none"
    /\ callee' = "isDate"
    /\ outcome' = isDate(argValue)
    /\ UNCHANGED <<argValue, argDefault>>
    /\ UNCHANGED buildVars
    /\ UNCHANGED renderVars

\* A call of toDate of app/code.js
CallJsToDate ==
    /\ callee = "none"
    /\ callee' = "js.toDate"
    /\ outcome' = jsToDate(argValue, argDefault)
    /\ UNCHANGED <<argValue, argDefault>>
    /\ UNCHANGED buildVars
    /\ UNCHANGED renderVars

\* A call of toDateStrict of app/code.js
CallJsToDateStrict ==
    /\ callee = "none"
    /\ callee' = "js.toDateStrict"
    /\ outcome' = jsToDateStrict(argValue, argDefault)
    /\ UNCHANGED <<argValue, argDefault>>
    /\ UNCHANGED buildVars
    /\ UNCHANGED renderVars

\* The caller makes its next call with other arguments.
NextCall ==
    /\ callee # "none"
    /\ argValue' \in Values
    /\ argDefault' \in Defaults
    /\ callee' = "none"
    /\ outcome' = NoOutcome
    /\ UNCHANGED buildVars
    /\ UNCHANGED renderVars

NextDate ==
    \/ CallToDate
    \/ CallToDateStrict
    \/ CallIsDate
    \/ CallJsToDate
    \/ CallJsToDateStrict
    \/ NextCall

SpecDate == InitDate /\ [][NextDate]_vars

(***************************************************************************)
(*            The state machine of extraction and rendering                *)
(***************************************************************************)

\* How often one extraction or rendering is run on a project.
MaxRuns == 2

InitRender ==
    /\ project \in Projects
    /\ renderer = "none"
    /\ output = << >>
    /\ runs = 0
    /\ userFiles = {}
    /\ IdleDate
    /\ IdleBuild
    /\ variant = "gas1"
    /\ fs = CleanFS(variant)

\* Nothing has run on the project, or op has and may run again: the build
\* scripts build a fresh Project on every invocation and keep nothing between
\* invocations but the files they wrote.
MayRun(op) ==
    /\ renderer \in {"none", op}
    /\ runs < MaxRuns

\* An operation on the project returns result.
Returns(op, result) ==
    /\ renderer' = op
    /\ output' = result
    /\ runs' = runs + 1
    /\ UNCHANGED userFiles
    /\ UNCHANGED project
    /\ UNCHANGED dateVars
    /\ UNCHANGED buildVars

\* for (const sourceFile of sourceFiles) extractExportsFromFile(sourceFile)
ExtractExports ==
    /\ MayRun("extract")
    /\ Returns("extract",
               [u \in 1 .. Len(project) |-> extractExportsFromFile(project[u])])

\* Slip: the lines are pushed onto what the previous run rendered.
RenderDeclarations_appending ==
    /\ MayRun("declarations")
    /\ Returns("declarations",
               output \o generateTypeDeclarations(Collect(project, "types"),
                                                  Collect(project, "functions")))

\* buildTypes: outputContent = generateTypeDeclarations(allTypes,
\* allInterfaces)
RenderDeclarations ==
    /\ MayRun("declarations")
    /\ Returns("declarations",
               generateTypeDeclarations(Collect(project, "types"),
                                        Collect(project, "functions")))

\* buildJSDoc: outputContent = generateJSDocFromExports(allTypes,
\* allFunctions)
RenderJSDoc ==
    /\ MayRun("jsdoc")
    /\ Returns("jsdoc",
               generateJSDocFromExports(Collect(project, "types"),
                                        Collect(project, "functions")))

\* buildNPM: indexContent = generateIndexFile(sourceFiles)
RenderIndex ==
    /\ MayRun("index")
    /\ Returns("index", generateIndexFile(project))

\* buildGAS: jsContent = convertTSToJS(sourceFile) for each source file, the
\* lines of each output file
ConvertSources ==
    /\ renderer = "none"
    /\ \E v \in {"gas1", "gas2", "gas3"} :
          Returns(v, [u \in 1 .. Len(project) |->
                         SplitLines(convertTSToJS(v, project[u]))])

NextRender ==
    \/ ExtractExports
    \/ RenderDeclarations
    \/ RenderJSDoc
    \/ RenderIndex
    \/ ConvertSources

SpecRender == InitRender /\ [][NextRender]_vars

(***************************************************************************)
(*                   The state machine of the bundler                      *)
(***************************************************************************)

InitBundle ==
    /\ project = UtilitySources
    /\ userFiles \in UserFileSets
    /\ renderer = "none"
    /\ output = << >>
    /\ runs = 0
    /\ IdleDate
    /\ IdleBuild
    /\ variant = "cli"
    /\ fs = CleanFS(variant)

\* buildProject: usedUtilExports = findUsedUtilityExports(userFiles), and
\* lib/gas-utils.js is written when the set is not empty
BundleUtilities ==
    /\ renderer = "none"
    /\ userFiles # {}
    /\ LET usedUtilExports == findUsedUtilityExports(userFiles) IN
       Returns("bundle",
               IF Cardinality(usedUtilExports) > 0
               THEN createTreeShakenUtilsBundle(usedUtilExports)
               ELSE NotWritten)

NextBundle == BundleUtilities

SpecBundle == InitBundle /\ [][NextBundle]_vars

Next == NextDate \/ NextBuild \/ NextRender \/ NextBundle
Spec == (InitDate \/ InitBuild \/ InitRender \/ InitBundle) /\ [][Next]_vars


(***************************************************************************)
(*                 Claims about the library functions                      *)
(***************************************************************************)

\* Date parsing / construction accepts v.
Accepts(v) ==
    \/ v.t = "date" /\ v.n.c = "fin"
    \/ v.t = "number" /\ v.n.c = "fin" /\ ~OutOfTimeRange(v.n)
    \/ v.t = "string" /\ DateParse(v.s).c = "fin"

\* r is the interpretation of v as a date: the time value of a Date, the
\* parsed timestamp of a string, the number cut to whole milliseconds
\* toward zero.
MeansTime(v, r) ==
    /\ r.c = "fin" /\ r.f = 0
    /\ v.t = "date" => r = v.n
    /\ v.t = "string" => r = DateParse(v.s)
    /\ v.t = "number" /\ v.n.f = 0 => r = v.n
    /\ v.t = "number" /\ v.n.f = 1 /\ v.n.hi >= 0 =>
           r.hi = v.n.hi /\ r.lo = v.n.lo
    /\ v.t = "number" /\ v.n.f = 1 /\ v.n.hi < 0 =>
           \/ r.hi = v.n.hi /\ r.lo = v.n.lo + 1
           \/ r.hi = v.n.hi + 1 /\ r.lo = 0 /\ v.n.lo = Base - 1

C2_StrictContract ==
    callee = "toDateStrict" =>
        LET r == toDate(argValue, argDefault) IN
        IF r.kind = "return" /\ r.val.t # "undefined"
        THEN outcome = r
        ELSE outcome.kind = "throw" /\ outcome.err = "TypeError"

C2_Witness ==
    /\ callee = "toDateStrict"
    /\ argValue = Str("bad-input")
    /\ argDefault = Undefined
    /\ outcome = Throw("TypeError")

C4_IsDateContract ==
    callee = "isDate" =>
        outcome = Ret(Bool(argValue.t = "date" /\ argValue.n.c # "nan"))

C4_Witness ==
    /\ callee = "isDate"
    /\ argValue = DateObj(ValueId, NaN)
    /\ outcome = Ret(Bool(FALSE))

\* C5: as the README and the generated JSDoc reference document it, toDate
\* returns null, not undefined, when the value is invalid and no default is
\* given.
C5_ReturnsNullWithoutDefault ==
    (callee = "toDate" /\ ~Accepts(argValue) /\ argDefault = Undefined)
        => outcome = Ret(Null)

(***************************************************************************)
(*                   Claims about the build scripts                        *)
(***************************************************************************)

\* C6: a build process ends with exit code zero when all steps succeeded
\* and, after printing the error, with a non-zero exit code when a step
\* failed.
C6_ExitCodeTellsFailure ==
    exitCode >= 0 =>
        /\ status = "resolved" => exitCode = 0
        /\ status \in {"rejected", "aborted"} => exitCode # 0 /\ stderr

\* The statement that failed sits in a try block.
FailedInTry == failedAt # 0 /\ Program[failedAt].try

\* C7 (as stated): no error is recovered locally; once a step failed no
\* later step runs, no success message is printed and the invocation ends
\* failed.
C7_NoLocalRecovery ==
    failedAt # 0 =>
        /\ status = "rejected"
        /\ pc = failedAt
        /\ ~ranAfter
        /\ ~stdout

\* C7 (amended): a failure outside the appsscript.json copy of the GAS
\* builds aborts the invocation at that step; a failure of reading or
\* writing appsscript.json is caught, and the invocation goes on and is
\* never rejected.
C7_AbortExceptAppsScript ==
    /\ (failedAt # 0 /\ ~FailedInTry) =>
          /\ status = "rejected"
          /\ pc = failedAt
          /\ ~ranAfter
          /\ ~stdout
    /\ FailedInTry =>
          /\ variant \in {"gas1", "gas2", "gas3"}
          /\ AppsScript \in {Program[failedAt].from, Program[failedAt - 1].from}
          /\ status \in {"running", "resolved"}
          /\ exitCode >= 0 => stdout /\ ~stderr

C7_Witness ==
    /\ failedAt # 0
    /\ ~FailedInTry
    /\ status = "rejected"
    /\ written # {}
    /\ exitCode >= 0

\* C8: a build variant whose glob matches no source file fails and writes
\* no artifact; it never completes successfully.
C8_EmptyGlobFails ==
    (status # "idle" /\ env.sources = {}) =>
        /\ written = {}
        /\ status # "resolved"

\* The artifact paths of the statements lo..hi of the program.
Artifacts(lo, hi) ==
    {Program[j].path :
        j \in {i \in lo .. hi : Program[i].op \in {"write", "copy"}}}

\* C9: in the variants that copy README.md from ./docs, an absent template
\* fails the build at the copy statement; what was written before stays,
\* README.md and the later artifacts are not written, nothing is cleaned up
\* or retried.
C9_MissingTemplate ==
    \A k \in 1 .. Len(Program) :
        (status # "idle" /\ Program[k].op = "copy"
           /\ fs[Program[k].from] = Absent) =>
            /\ pc <= k
            /\ Artifacts(k, Len(Program)) \cap written = {}
            /\ (pc = k /\ env.failAt = 0 /\ status # "running") =>
                  /\ status = "rejected"
                  /\ failedAt = k
                  /\ written = Artifacts(1, k - 1)
                  /\ \A p \in written : fs[p] # Absent /\ fs[p].age = 0
                  /\ \A p \in Artifacts(k, Len(Program)) : fs[p] = Absent

C9_Witness ==
    /\ variant \in {"types2", "npm2"}
    /\ status = "rejected"
    /\ Program[pc].op = "copy"
    /\ fs[Program[pc].from] = Absent
    /\ env.failAt = 0
    /\ written # {}
    /\ exitCode >= 0

\* The files present in the output directory.
DirContents ==
    {p \in DOMAIN fs : Under(OutputDir(variant), p) /\ fs[p] # Absent}

\* C10: for a variant that cleans first, after two successive successful
\* invocations the output directory holds exactly the artifacts of the
\* second one: nothing written only by the first, no other earlier file.
C10_OnlySecondRunSurvives ==
    (variant \in {"gas1", "gas2", "types1", "types2", "jsdoc", "cli",
                  "npm1", "npm2"}
       /\ status = "resolved" /\ prev.ok) =>
        /\ \A p \in DirContents : p \in written /\ fs[p].age = 0
        /\ \A p \in written : Under(OutputDir(variant), p) => p \in DirContents

C10_Witness ==
    /\ Cleans(variant)
    /\ status = "resolved"
    /\ prev.ok
    /\ prev.left
    /\ \E p \in written : Len(p) > Len(OutputDir(variant)) + 1

\* The statements before statement k whose call has had its effect: all of
\* them but one skipped or failed inside the try block.
Settled(k) ==
    \A j \in 1 .. (k - 1) :
        /\ j \notin inflight
        /\ (Program[j].op = "write" /\ ~Program[j].try)
               => Program[j].path \in written

\* C11: within one invocation the statements run one at a time in program
\* order: at most one filesystem call is in flight, it is the call of the
\* current statement, and it was made only after every earlier call had
\* completed (the removal before the mkdir, the mkdir before the first
\* write, each write before the next).
C11_OneAtATime ==
    /\ Cardinality(inflight) <= 1
    /\ \A k \in inflight :
          /\ status = "running"
          /\ k = pc
          /\ Settled(k)
          /\ (Cleans(variant) /\ Program[k].op = "mkdir"
                /\ Program[k].path = OutputDir(variant)) =>
                 \A p \in DOMAIN fs :
                    Under(OutputDir(variant), p) => fs[p] = Absent

C11_Witness ==
    /\ Cleans(variant)
    /\ inflight = {pc}
    /\ Program[pc].op = "write"
    /\ Cardinality(written) >= 2
    /\ prev.ok

(***************************************************************************)
(*            Claims about export extraction and the renderers             *)
(***************************************************************************)

\* The declarations of source file u, top to bottom.
DeclsOf(u) == [j \in 1 .. Len(project[u].decls) |-> Pool[project[u].decls[j]]]

\* d is a type alias or function declared with the export marker.
Marked(d) == d.kind \in {"type", "function"} /\ d.exported

\* The lines of a rendered output.
OutLines ==
    IF renderer \in {"gas1", "gas2", "gas3"} THEN Concat(output) ELSE output

\* name is written somewhere in the rendered output.
Mentioned(name) ==
    \E l \in 1 .. Len(OutLines) : \E i \in 1 .. Len(OutLines[l]) :
        OutLines[l][i] = name

\* C12: a type alias or function is in the extracted export lists exactly
\* when its declaration carries the export marker; nothing else is in the
\* lists, and a declaration without the marker shows in no output rendered
\* from the lists.
C12_ExportFilter ==
    /\ renderer = "extract" =>
          \A u \in 1 .. Len(project) :
             /\ \A j \in 1 .. Len(DeclsOf(u)) :
                   LET d == DeclsOf(u)[j] IN
                   /\ (d.kind = "type" /\ d.exported) <=>
                         \E k \in 1 .. Len(output[u].types) :
                            output[u].types[k].name = d.name
                   /\ (d.kind = "function" /\ d.exported) <=>
                         \E k \in 1 .. Len(output[u].functions) :
                            output[u].functions[k].name = d.name
             /\ Len(output[u].types) + Len(output[u].functions)
                   = Cardinality({j \in 1 .. Len(DeclsOf(u)) :
                                     Marked(DeclsOf(u)[j])})
    /\ renderer \in {"declarations", "jsdoc", "index", "gas3"} =>
          \A u \in 1 .. Len(project) : \A j \in 1 .. Len(DeclsOf(u)) :
             ~DeclsOf(u)[j].exported => ~Mentioned(DeclsOf(u)[j].name)

C12_Witness ==
    /\ renderer = "extract"
    /\ project[1].decls = <<6, 2>>
    /\ Len(output[1].functions) = 1
    /\ output[1].functions[1].name = "toDate"

\* The line of the output is the member rendered for the export name.
IsMember(line, name) ==
    CASE renderer = "declarations" ->
            \/ StartsWith(line, Sp(4) \o <<"type", " ", name, " ", "=">>)
            \/ StartsWith(line, Sp(6) \o <<name, "(">>)
      [] renderer = "jsdoc" ->
            \/ line = <<" ", "*", " ", "@", "function", " ", "Utils", ".", name>>
            \/ /\ StartsWith(line, <<" ", "*", " ", "@", "typedef", " ", "{">>)
               /\ Len(line) > 10
               /\ SubSeq(line, Len(line) - 3, Len(line))
                     = <<" ", "Utils", ".", name>>
      [] OTHER -> FALSE

\* The export a is rendered before the export b.
Before(a, b) ==
    IF renderer = "index"
    THEN \E l \in 1 .. Len(output) :
            /\ StartsWith(output[l], <<"export", " ", "{">>)
            /\ \E i, j \in 1 .. Len(output[l]) :
                  i < j /\ output[l][i] = a /\ output[l][j] = b
    ELSE \E la, lb \in 1 .. Len(output) :
            la < lb /\ IsMember(output[la], a) /\ IsMember(output[lb], b)

\* In the extracted lists of file u, a stands before b.
ListedBefore(u, a, b) ==
    \/ \E i, j \in 1 .. Len(output[u].types) :
          i < j /\ output[u].types[i].name = a /\ output[u].types[j].name = b
    \/ \E i, j \in 1 .. Len(output[u].functions) :
          /\ i < j
          /\ output[u].functions[i].name = a
          /\ output[u].functions[j].name = b

MarkedNames(u) ==
    {DeclsOf(u)[j].name : j \in {i \in 1 .. Len(DeclsOf(u)) : Marked(DeclsOf(u)[i])}}
MarkedFunctions(u) ==
    {DeclsOf(u)[j].name :
        j \in {i \in 1 .. Len(DeclsOf(u)) :
                 Marked(DeclsOf(u)[i]) /\ DeclsOf(u)[i].kind = "function"}}

\* The tokens of a line that are words: runs of letters.
NamesIn(line) ==
    {line[i] : i \in {k \in 1 .. Len(line) :
                        line[k] \notin {" ", ",", "{", "}", "(", ")"}}}

\* C14: every name in a generated aggregate export list is the name of a
\* type alias or function exported from the source files: the export line
\* of index.ts for a file names only exports of that file, the @property
\* lines only exported functions, the members of the declaration block
\* only exports.
C14_NoFabricatedNames ==
    /\ renderer = "index" =>
          \A l \in 1 .. Len(output) :
             StartsWith(output[l], <<"export", " ", "{">>) =>
                \E u \in 1 .. Len(project) :
                   LET tail == <<" ", "}", " ", "from", " ", "'", ".", "/">>
                               \o project[u].name \o <<".", "js", "'">>
                       n == Len(output[l]) - Len(tail)
                   IN /\ n > 4
                      /\ SubSeq(output[l], n + 1, Len(output[l])) = tail
                      /\ NamesIn(SubSeq(output[l], 4, n)) \subseteq MarkedNames(u)
                      /\ NamesIn(SubSeq(output[l], 4, n)) # {}
    /\ renderer = "jsdoc" =>
          \A l \in 1 .. Len(output) :
             StartsWith(output[l], <<" ", "*", " ", "@", "property">>) =>
                \E u \in 1 .. Len(project) :
                   output[l][Len(output[l])] \in MarkedFunctions(u)
    /\ renderer = "declarations" =>
          \A l \in 1 .. Len(output) :
             /\ StartsWith(output[l], Sp(4) \o <<"type", " ">>) =>
                   \E u \in 1 .. Len(project) : output[l][7] \in MarkedNames(u)
             /\ (Len(output[l]) > 8 /\ StartsWith(output[l], Sp(6))
                   /\ output[l][8] = "(") =>
                   \E u \in 1 .. Len(project) :
                      output[l][7] \in MarkedFunctions(u)

C14_Witness ==
    /\ renderer = "index"
    /\ project[1].decls = <<6>>
    /\ project[2].decls = <<4>>
    /\ Cardinality({l \in 1 .. Len(output) :
                       StartsWith(output[l], <<"export", " ", "{">>)}) = 1
    /\ \E l \in 1 .. Len(output) :
          output[l] = <<"export", " ", "{", " ", "isDate", " ", "}", " ",
                        "from", " ", "'", ".", "/", "type", "-", "check",
                        ".", "js", "'">>

\* The exported type aliases / functions of all files, in file order.
AllMarked(kind) ==
    SelectSeq(Concat([u \in 1 .. Len(project) |-> DeclsOf(u)]),
              LAMBDA d : Marked(d) /\ d.kind = kind)

\* The index of the only line of the output equal to line, 0 if there is
\* none or more than one.
TheLine(line) ==
    LET at == {l \in 1 .. Len(output) : output[l] = line} IN
    IF Cardinality(at) = 1 THEN Least(at) ELSE 0

\* The type / function member lines of a declaration block.
TypeMembers == {l \in 1 .. Len(output) :
                   StartsWith(output[l], Sp(4) \o <<"type", " ">>)}
FunctionMembers ==
    {l \in 1 .. Len(output) :
        /\ StartsWith(output[l], Sp(6))
        /\ Len(output[l]) > 8
        /\ output[l][7] \notin {" ", "/", "*"}}

\* C15: the declaration block holds exactly one `type <name> =
\* <definition>` member per extracted type and exactly one
\* `<name>(<params>): <returnType>` member per extracted function, inside
\* declare namespace Lib { namespace Utils { ... } }, every type member
\* before the `interface Utils {` line and every function member between
\* that line and the closing brace of the interface.
C15_DeclarationBlock ==
    renderer = "declarations" =>
        LET types == AllMarked("type")
            funcs == AllMarked("function")
            open  == TheLine(Sp(4) \o <<"interface", " ", "Utils", " ", "{">>)
            close == TheLine(Sp(4) \o <<"}">>)
        IN /\ output[1] = <<"declare", " ", "namespace", " ", "Lib", " ", "{">>
           /\ output[2] = Sp(2) \o <<"namespace", " ", "Utils", " ", "{">>
           /\ open > 2 /\ close > open
           /\ output[close + 1] = Sp(2) \o <<"}">>
           /\ output[close + 2] = <<"}">>
           /\ Cardinality(TypeMembers) = Len(types)
           /\ Cardinality(FunctionMembers) = Len(funcs)
           /\ \A l \in TypeMembers : 2 < l /\ l < open
           /\ \A l \in FunctionMembers : open < l /\ l < close
           /\ \A k \in 1 .. Len(types) :
                 Cardinality({l \in TypeMembers :
                    output[l] = Sp(4) \o <<"type", " ", types[k].name, " ",
                                           "=", " ">> \o types[k].def}) = 1
           /\ \A k \in 1 .. Len(funcs) :
                 Cardinality({l \in FunctionMembers :
                    LET n == Len(output[l]) - Len(funcs[k].ret) IN
                    /\ StartsWith(output[l], Sp(6) \o <<funcs[k].name, "(">>)
                    /\ n > 3
                    /\ SubSeq(output[l], n - 2, Len(output[l]))
                          = <<")", ":", " ">> \o funcs[k].ret
                    /\ \A i \in 1 .. Len(funcs[k].params) :
                          \E c \in 8 .. n :
                             StartsAt(output[l], c,
                                <<funcs[k].params[i].name>>
                                \o (IF funcs[k].params[i].opt
                                    THEN <<"?">> ELSE << >>)
                                \o <<":", " ">> \o funcs[k].params[i].type)
                   }) = 1

C15_Witness ==
    /\ renderer = "declarations"
    /\ project[1].decls = <<4, 1>>
    /\ TypeMembers # {}
    /\ FunctionMembers # {}
    /\ \A l \in TypeMembers : \A m \in FunctionMembers : l < m

\* The text lines of a documentation comment as written: the lines between
\* the opening and the closing line, without the ` * ` in front.
DocLines(doc) ==
    LET split == SplitLines(doc)
        inner == [k \in 1 .. (Len(split) - 2) |->
                     SubSeq(split[k + 1], 4, Len(split[k + 1]))]
    IN SelectSeq(inner, LAMBDA line : line # << >>)

\* The tag of a line of a documentation comment ("" for plain text).
TagOf(line) ==
    IF Len(line) >= 2 /\ line[1] = "@" THEN line[2] ELSE ""

\* The comment block that ends right above line l of the output: its lines
\* between the opening and the closing line, without the ` * ` in front;
\* no block gives << <<"none">> >>.
BlockAbove(l) ==
    IF l < 3 \/ output[l - 1] # Sp(7) \o <<"*", "/">> THEN << <<"none">> >>
    ELSE LET opens == {k \in 1 .. (l - 2) : output[k] = Sp(6) \o <<"/", "*", "*">>}
             from  == Greatest(opens)
         IN [k \in 1 .. (l - 2 - from) |->
                SubSeq(output[from + k], 10, Len(output[from + k]))]

Ink(text) == SelectSeq(text, LAMBDA t : ~IsSpace(t))

\* The output file of source file u as one text.
OutText(u) == Join(output[u], <<"\n">>)

\* `function <name>(<params>) {` for declaration d, the parameter names
\* alone.
PlainHead(d) ==
    <<"function", " ", d.name, "(">>
    \o Join([k \in 1 .. Len(d.params) |-> <<d.params[k].name>>], <<",", " ">>)
    \o <<")", " ", "{">>

\* C17: in a type-erased output file every function of the source text is
\* declared with the same parameter names in the same order, without type
\* annotation and without `?`, and with its body unchanged (compared token
\* by token, blanks and line breaks aside).
C17_ErasureKeepsFunctions ==
    renderer \in {"gas1", "gas2"} =>
        \A u \in 1 .. Len(project) : \A j \in 1 .. Len(DeclsOf(u)) :
            LET d == DeclsOf(u)[j] IN
            d.kind = "function" =>
                Includes(Ink(OutText(u)),
                         Ink(PlainHead(d)) \o Ink(d.body) \o <<"}">>)

\* C18: the runtime-preserving output re-emits every exported function as
\* `function <name>(<params>) {` under its documentation comment, with
\* every token of the body of the source (blanks and line breaks aside),
\* the `: <expr>` branch of a conditional expression included.
C18_RuntimePreserved ==
    renderer = "gas3" =>
        \A u \in 1 .. Len(project) : \A j \in 1 .. Len(DeclsOf(u)) :
            LET d == DeclsOf(u)[j] IN
            (d.kind = "function" /\ d.exported) =>
                Includes(Ink(OutText(u)),
                         Ink(d.doc) \o Ink(PlainHead(d)) \o Ink(d.body)
                         \o <<"}">>)

\* text.endsWith(suffix)
EndsWith(text, suffix) ==
    /\ Len(text) >= Len(suffix)
    /\ SubSeq(text, Len(text) - Len(suffix) + 1, Len(text)) = suffix

\* The description of a tag line of a documentation comment: the text
\* behind its first skip tokens, less the hyphen in front of it.
Described(line, skip) ==
    LET rest == TrimStart(SubSeq(line, skip + 1, Len(line))) IN
    IF rest # << >> /\ rest[1] = "-" THEN Trim(Tail(rest)) ELSE Trim(rest)

\* The lines of the comment block of the documentation output that holds
\* the line `@function Utils.<name>`, from that line on.
BlockOf(name) ==
    LET head == Least({l \in 1 .. Len(output) :
                          output[l] = <<" ", "*", " ", "@", "function", " ",
                                        "Utils", ".", name>>})
        close == Least({l \in head .. Len(output) :
                           output[l] = <<" ", "*", "/">>})
    IN SubSeq(output, head, close - 1)

\* The lines of a block that carry the tag.
Tagged(block, tag) ==
    SelectSeq(block, LAMBDA line : StartsWith(line, <<" ", "*", " ", "@", tag>>))

\* C19: in the documentation output, the description on the @param line of
\* a parameter and on the @returns line of a function is the description
\* of the tag line of the original comment, whenever the comment has that
\* tag line with a description.
C19_DescriptionsFromComment ==
    renderer = "jsdoc" =>
        \A k \in 1 .. Len(AllMarked("function")) :
            LET f == AllMarked("function")[k]
                lines == DocLines(f.doc)
                block == BlockOf(f.name)
            IN \A x \in 1 .. Len(lines) :
                  /\ \A p \in 1 .. Len(f.params) :
                        (/\ TagOf(lines[x]) = "param"
                         /\ Len(lines[x]) >= 4
                         /\ lines[x][4] = f.params[p].name
                         /\ Described(lines[x], 4) # << >>)
                        => EndsWith(Tagged(block, "param")[p],
                                    <<" ", "-", " ">> \o Described(lines[x], 4))
                  /\ (/\ TagOf(lines[x]) \in {"returns", "return"}
                      /\ Described(lines[x], 2) # << >>)
                     => EndsWith(Tagged(block, "returns")[1],
                                 <<"}", " ">> \o Described(lines[x], 2))

\* A line of a documentation-comment block / the tag it carries ("" for
\* text).
IsCommentLine(line) ==
    \/ line = <<"/", "*", "*">>
    \/ StartsWith(line, <<" ", "*">>)
LineTag(line) ==
    IF StartsWith(line, <<" ", "*", " ", "@">>) /\ Len(line) >= 5
    THEN line[5] ELSE ""

\* The lines of the documentation output that open a comment block, and
\* those that name an export with the tag.
BlockOpenings == {l \in 1 .. Len(output) : output[l] = <<"/", "*", "*">>}
Naming(tag, name) ==
    {l \in 1 .. Len(output) :
        /\ LineTag(output[l]) = tag
        /\ EndsWith(output[l], <<" ", "Utils", ".", name>>)}

\* Every extracted type has one typedef line and every extracted function
\* one function line that names it as Utils.<name>.
OneBlockPerExport ==
    /\ \A k \in 1 .. Len(AllMarked("type")) :
          Cardinality(Naming("typedef", AllMarked("type")[k].name)) = 1
    /\ \A k \in 1 .. Len(AllMarked("function")) :
          Cardinality(Naming("function", AllMarked("function")[k].name)) = 1

\* C20 as stated: the documentation output holds no executable code, only
\* comment blocks, exactly one per extracted type and one per extracted
\* function, with no tag but typedef, function, param, returns, throws.
C20_OnlyExportBlocks ==
    renderer = "jsdoc" =>
        /\ \A l \in 1 .. Len(output) :
              /\ output[l] = << >> \/ IsCommentLine(output[l])
              /\ LineTag(output[l]) \in
                    {"", "typedef", "function", "param", "returns", "throws"}
        /\ OneBlockPerExport
        /\ Cardinality(BlockOpenings)
              = Len(AllMarked("type")) + Len(AllMarked("function"))

\* The fixed blocks of the documentation output: the namespace block in
\* front, the typedef of Utils with one property line per function (when
\* there is a function) and the type block of the Utils variable behind.
FixedBlocks == IF AllMarked("function") = << >> THEN 2 ELSE 3

\* C20: the documentation output holds comment blocks and one line of
\* code, the declaration `var Utils = Utils || {}` that ends it: one block
\* per extracted type (typedef Utils.<name>) and one per extracted function
\* (function Utils.<name>) with no tag but typedef, function, param,
\* returns, throws, and the fixed blocks that carry the namespace tag, the
\* typedef and property tags of Utils and the type tag.
C20_ExportBlocksAndDeclaration ==
    renderer = "jsdoc" =>
        LET code == {l \in 1 .. Len(output) :
                        output[l] # << >> /\ ~IsCommentLine(output[l])}
        IN /\ Cardinality(code) = 1
           /\ \A l \in code :
                 /\ output[l] = <<"var", " ", "Utils", " ", "=", " ", "Utils",
                                  " ", "|", "|", " ", "{", "}">>
                 /\ \A m \in (l + 1) .. Len(output) : output[m] = << >>
           /\ \A l \in 1 .. Len(output) :
                 LineTag(output[l]) \in
                    {"", "typedef", "function", "param", "returns", "throws",
                     "namespace", "property", "type"}
           /\ \A k \in 1 .. Len(AllMarked("function")) :
                 \A l \in 1 .. Len(BlockOf(AllMarked("function")[k].name)) :
                    LineTag(BlockOf(AllMarked("function")[k].name)[l])
                       \in {"function", "param", "returns", "throws"}
           /\ OneBlockPerExport
           /\ Cardinality(BlockOpenings)
                 = Len(AllMarked("type")) + Len(AllMarked("function"))
                   + FixedBlocks
           /\ Cardinality({l \in 1 .. Len(output) :
                              LineTag(output[l]) = "property"})
                 = Len(AllMarked("function"))
           /\ Cardinality({l \in 1 .. Len(output) :
                              LineTag(output[l]) \in {"namespace", "type"}}) = 2

C20_Witness ==
    /\ renderer = "jsdoc"
    /\ project[1].decls = <<1, 2>>
    /\ Cardinality(BlockOpenings) = 5
    /\ output[Len(output) - 1] = <<"var", " ", "Utils", " ", "=", " ", "Utils",
                                   " ", "|", "|", " ", "{", "}">>

(***************************************************************************)
(*                 Claims about artifacts and their paths                  *)
(***************************************************************************)

\* The statements of the invocation that have emitted an artifact to path p
\* so far: the writes and copies that have completed.
Emissions(p) ==
    {k \in 1 .. Len(Program) :
        /\ k < pc
        /\ ~(failedAt # 0 /\ k >= failedAt /\ k < AfterTry(failedAt))
        /\ Program[k].op \in {"write", "copy"}
        /\ Program[k].path = p}

\* What statement k emits.
Emitted(k) ==
    IF Program[k].op = "copy" THEN Content("copy", {}, 0)
    ELSE Content(Program[k].kind, Program[k].of, 0)

Renderers == {"declarations", "jsdoc", "index"}

SatisfiesIsDate(v) == isDate(v) = Ret(Bool(TRUE))

\* C29: when defaultValue is undefined or a valid Date, whatever toDate
\* returns is undefined or satisfies isDate, and whatever toDateStrict returns
\* satisfies isDate.
C29_ResultsAreValid ==
    (/\ callee \in {"toDate", "toDateStrict"}
     /\ (StrictEqUndefined(argDefault) \/ SatisfiesIsDate(argDefault))
     /\ outcome.kind = "return")
        => /\ StrictEqUndefined(outcome.val) \/ SatisfiesIsDate(outcome.val)
           /\ callee = "toDateStrict" => SatisfiesIsDate(outcome.val)

\* toDateStrict has returned the Date it made from a string, no default given.
C29_Witness ==
    /\ callee = "toDateStrict"
    /\ TypeOf(argValue) = "string"
    /\ StrictEqUndefined(argDefault)
    /\ outcome.kind = "return"
    /\ outcome.val.id = FreshId
    /\ SatisfiesIsDate(outcome.val)


(***************************************************************************)
(*                     app/code.js against app/code.ts                     *)
(***************************************************************************)

\* C26: on the same value and defaultValue, toDate of app/code.js returns
\* what toDate of app/code.ts returns, and toDateStrict of app/code.js returns
\* what toDateStrict of app/code.ts returns or throws a TypeError where it
\* throws one.
C26_JsCopyEquivalent ==
    /\ callee = "js.toDate" => outcome = toDate(argValue, argDefault)
    /\ callee = "js.toDateStrict" => outcome = toDateStrict(argValue, argDefault)

\* toDateStrict of app/code.js has returned the null it was given as default,
\* as toDateStrict of app/code.ts does.
C26_Witness ==
    /\ callee = "js.toDateStrict"
    /\ argDefault.t = "null"
    /\ outcome.kind = "return"
    /\ outcome.val.t = "null"
    /\ toDateStrict(argValue, argDefault) = outcome


(***************************************************************************)
(*             The opening brace behind a return annotation                *)
(***************************************************************************)

\* How often `{` is the next token, blanks aside, behind `)` in the text.
OpenAfterParen(text) ==
    LET ink == Ink(text) IN
    Cardinality({i \in 1 .. (Len(ink) - 1) :
                    ink[i] = ")" /\ ink[i + 1] = "{"})

\* The functions of source file u that have a return-type annotation, which
\* the opening brace of the body follows.
Annotated(u) ==
    SelectSeq(DeclsOf(u), LAMBDA d : d.kind = "function" /\ d.ret # << >>)

\* C25: the type-erased output of a source file keeps, for every function
\* with a return-type annotation, the opening brace of the body and the first
\* line of the body right behind the parameter list, and has as many opening
\* braces behind a closing parenthesis as the source has, the annotations
\* taken out.
C25_BodyBraceKept ==
    renderer \in {"gas1", "gas2"} =>
        \A u \in 1 .. Len(project) :
            /\ \A j \in 1 .. Len(Annotated(u)) :
                   Includes(Ink(OutText(u)),
                            <<")", "{">>
                            \o Ink(Head(SplitLines(Annotated(u)[j].body))))
            /\ OpenAfterParen(OutText(u))
                  = OpenAfterParen(getFullText(project[u])) + Len(Annotated(u))


(***************************************************************************)
(*                 The description of the named parameter                  *)
(***************************************************************************)

\* The description of a @param line of the documentation output: the text
\* behind its first ` - `.
PrintedDescription(line) ==
    LET h == Least({i \in 2 .. (Len(line) - 1) :
                       line[i] = "-" /\ line[i - 1] = " " /\ line[i + 1] = " "})
    IN SubSeq(line, h + 2, Len(line))

\* C30: in the documentation output, the description on the @param line of
\* parameter p comes from the @param line of the original comment that names
\* exactly p (it is that description or its end), whatever the order of the
\* parameters and also when the name of p is part of the name of another
\* parameter.
C30_DescriptionOfNamedParam ==
    renderer = "jsdoc" =>
        \A k \in 1 .. Len(AllMarked("function")) :
            LET f == AllMarked("function")[k]
                lines == DocLines(f.doc)
                block == BlockOf(f.name)
            IN \A x \in 1 .. Len(lines) : \A p \in 1 .. Len(f.params) :
                  (/\ TagOf(lines[x]) = "param"
                   /\ Len(lines[x]) >= 4
                   /\ lines[x][4] = f.params[p].name
                   /\ Described(lines[x], 4) # << >>)
                  => LET printed ==
                             PrintedDescription(Tagged(block, "param")[p])
                     IN /\ printed # << >>
                        /\ EndsWith(Described(lines[x], 4), printed)


(***************************************************************************)
(*                    What a build leaves untouched                        *)
(***************************************************************************)

\* A step of the running build leaves every path outside Own as it is.
Leaves(Own(_)) ==
    status = "running" =>
        \A p \in DOMAIN fs : ~Own(p) => fs'[p] = fs[p]

\* p lies in the output directory of the build.
InOutputDir(p) == Under(OutputDir(variant), p)

\* p lies in the output directory of the build, or is the reference copy
\* ./docs/gas-types.js of the documentation build.
InOutputDirOrReference(p) ==
    \/ InOutputDir(p)
    \/ variant = "jsdoc" /\ p = GasTypesDoc

\* C28 as claimed: no step of a build removes, creates or overwrites a file
\* outside the output directory of its variant.
C28_OnlyOutputDir == [][Leaves(InOutputDir)]_vars

\* C28: no step of a build removes, creates or overwrites a file outside the
\* output directory of its variant, but for ./docs/gas-types.js, which the
\* documentation build writes as well.
C28_OutputDirAndReference == [][Leaves(InOutputDirOrReference)]_vars

\* The documentation build has ended well: it wrote into its output
\* directory and ./docs/gas-types.js, and the file next to the output
\* directory and the build's inputs are as they were.
C28_Witness ==
    /\ variant = "jsdoc"
    /\ status = "resolved"
    /\ fs[GasTypesDoc].age = 0
    /\ GasTypesDoc \in written
    /\ \E p \in written : InOutputDir(p)
    /\ fs[Sibling(variant)] = Given
    /\ \A q \in Inputs(variant) : fs[q] = Given


(***************************************************************************)
(*                    Claims about the utility bundle                      *)
(***************************************************************************)

\* The exported functions of the utility package, by their index in Pool.
UtilityFunctions ==
    {i \in DOMAIN Pool :
        /\ \E u \in 1 .. Len(project) : \E j \in 1 .. Len(project[u].decls) :
              project[u].decls[j] = i
        /\ Pool[i].kind = "function"
        /\ Pool[i].exported}

\* lib/gas-utils.js has been written.
Written == output # NotWritten

\* lib/gas-utils.js declares the function of that name.
Defines(name) ==
    Written /\ Includes(output, <<"function", " ", name, "(">>)

\* The module specifier names the utility package, or is a path to it.
NamesPackage(m) == Len(m) >= 2 /\ m[Len(m)] = "gas-utils"

\* The import declarations of the user files that import from the package.
PackageImports ==
    {d \in UNION {{file.imports[k] : k \in 1 .. Len(file.imports)} :
                     file \in userFiles} :
        NamesPackage(d.moduleSpecifier)}

\* Some user file imports the name from the package.
ImportedByName(name) ==
    \E d \in PackageImports :
        \E n \in 1 .. Len(d.namedImports) : d.namedImports[n] = name

\* Some user file imports the package as a namespace.
NamespaceImported == \E d \in PackageImports : d.namespaceImport

\* The bundle has an exported utility function exactly when it is imported by
\* name or the package is imported as a namespace.
ShakenToImports ==
    \A i \in UtilityFunctions :
        Defines(Pool[i].name)
            <=> (ImportedByName(Pool[i].name) \/ NamespaceImported)

\* C24 as claimed: the bundle has an exported utility function exactly when
\* it is imported by name or the package is imported as a namespace, and the
\* bundle is written exactly when some user file imports an exported utility
\* function by name or the package as a namespace.
C24_WrittenForFunctionImports ==
    renderer = "bundle" =>
        /\ ShakenToImports
        /\ Written <=> \/ \E i \in UtilityFunctions : ImportedByName(Pool[i].name)
                       \/ NamespaceImported

\* C24: the bundle has an exported utility function exactly when it is
\* imported by name or the package is imported as a namespace, and the bundle
\* is written exactly when some user file imports a name, of a function or
\* not, from the package or imports the package as a namespace.
C24_WrittenForAnyImport ==
    renderer = "bundle" =>
        /\ ShakenToImports
        /\ Written <=> \/ \E d \in PackageImports : Len(d.namedImports) > 0
                       \/ NamespaceImported

\* One user file imports toDateStrict by name and no file imports another
\* function or the namespace: the bundle is written with toDateStrict alone.
C24_Witness ==
    /\ renderer = "bundle"
    /\ Written
    /\ ImportedByName("toDateStrict")
    /\ ~NamespaceImported
    /\ Defines("toDateStrict")
    /\ ~Defines("toDate")
    /\ ~Defines("isDate")

\* The body of function i calls function j.
Calls(i, j) == i # j /\ Includes(Pool[i].body, <<Pool[j].name, "(">>)

\* C27: whenever the bundle has a utility function, it has every utility
\* function that function calls.
C27_ClosedUnderCalls ==
    renderer = "bundle" =>
        \A i, j \in UtilityFunctions :
            (Defines(Pool[i].name) /\ Calls(i, j)) => Defines(Pool[j].name)

=============================================================================
